---- MODULE Spec2Model ----
(***************************************************************************)
(* Feishu channel adapter: inbound message pipeline (processMessageEvent   *)
(* and the im.message.receive_v1 handler of monitorFeishuProvider) with    *)
(* its access-control helpers.                                             *)
(*                                                                         *)
(* Strings whose characters the code inspects (sender ids, allow-list      *)
(* entries, message text, mention keys and names) are sequences of         *)
(* one-character strings.  An absent optional string (undefined) is the    *)
(* empty sequence: every use the code makes of these fields is a           *)
(* truthiness test or `?? ""`, which do not tell undefined from "".         *)
(* Chat ids and policy names are only compared for equality and are plain  *)
(* strings.                                                                *)
(***************************************************************************)
EXTENDS Integers, Sequences, FiniteSets, TLC

VARIABLES
  account,      \* ResolvedFeishuAccount.config of the monitoring session
  botInfo,      \* currentBotInfo.open_id (empty when unknown)
  stopped,      \* monitorFeishuProvider's stopped flag
  storeAllow,   \* pairing store: approved sender ids (readAllowFromStore)
  pending,      \* pairing store: sender ids with a pending pairing request
  slots,        \* in-flight handler invocations, one record per slot
  received,     \* number of events delivered to the handler so far
  blocked,      \* history: sender ids the direct-message policy has blocked
  fnIn,         \* input of the pure-function specifications
  fnOut,        \* result of the pure-function specifications
  tokenCache,   \* api.ts tokenCache: app id -> cached token and its expiry
  clock,        \* Date.now(), in milliseconds
  tokenCalls,   \* in-flight and settled getTenantAccessToken calls, per caller
  issued,       \* number of tokens the platform has issued
  exchanged,    \* history: the credential exchanges that wrote the cache, in order
  delivery,     \* one deliverFeishuReply call
  stream        \* one deliverFeishuReplyStreaming call and its StreamingContext

pipelineVars == <<account, botInfo, stopped, storeAllow, pending, slots, received, blocked>>

apiVars == <<tokenCache, clock, tokenCalls, issued, exchanged>>

vars == <<account, botInfo, stopped, storeAllow, pending, slots, received, blocked, fnIn, fnOut,
          tokenCache, clock, tokenCalls, issued, exchanged, delivery, stream>>

-----------------------------------------------------------------------------
(* Bounds *)

MaxEvents == 2

\* getTenantAccessToken calls
MaxCalls == 2

\* chunks of one reply
MaxChunks == 3

\* text increments of one streamed reply
MaxIncrements == 4

\* mentions of one message
MaxMentions == 2

\* transmissions of the replies to one event
MaxReplies == 2

-----------------------------------------------------------------------------
(* The API client and the reply delivery at rest *)

AppIds == {"cli_1", "cli_2"}

\* the concurrent callers of getTenantAccessToken (sendMessage, replyMessage,
\* updateMessageCard ... of in-flight events)
Callers == 1..MaxCalls

\* tokenCache.get(appId) of an app with no entry; a token is the number the
\* platform issued it under, 0 an absent or empty tenant_access_token
NoCachedToken == [present |-> FALSE, token |-> 0, expiresAt |-> 0]

NoTokenResponse == [code |-> 0, token |-> 0, hasExpire |-> FALSE, expire |-> 0]

IdleCall ==
  [pc |-> "idle", appId |-> "cli_1", now |-> 0, cached |-> NoCachedToken,
   exchanges |-> 0, response |-> NoTokenResponse, token |-> 0, error |-> "none"]

IdleApi ==
  /\ tokenCache = [a \in AppIds |-> NoCachedToken]
  /\ clock = 0
  /\ tokenCalls = [c \in Callers |-> IdleCall]
  /\ issued = 0
  /\ exchanged = <<>>

\* One deliverFeishuReply call: its parameters, the loop index i, the calls
\* it has issued (out) and how each settled, and the number of issued calls
\* that have not settled
NoDelivery ==
  [pc |-> "idle", text |-> "", chunks |-> <<>>, i |-> 0,
   senderId |-> <<>>, replyToMessageId |-> "", receiveId |-> <<>>, receiveIdType |-> "open_id",
   unsettled |-> 0, out |-> <<>>, settled |-> <<>>, lastOutboundAt |-> 0]

IdleDelivery == delivery = NoDelivery

\* One deliverFeishuReplyStreaming call: its parameters, its StreamingContext
\* (messageId, 0 for null; lastUpdateTime; accumulatedText, the increments
\* received so far; isFirstChunk), the reading of Date.now() at the last
\* increment, and as history the arrival times of the increments (empties:
\* of those that were the empty string), the calls
\* issued (out), how each settled, the number of platform messages created
\* and the number of lastOutboundAt reports
NoStream ==
  [pc |-> "idle",
   senderId |-> <<>>, replyToMessageId |-> "", receiveId |-> <<>>, receiveIdType |-> "open_id",
   messageId |-> 0, lastUpdateTime |-> 0, accumulatedText |-> <<>>, isFirstChunk |-> TRUE,
   now |-> 0, arrivals |-> <<>>, empties |-> {}, unsettled |-> 0, out |-> <<>>,
   settled |-> <<>>, created |-> 0, lastOutboundAt |-> 0]

IdleStream == stream = NoStream

-----------------------------------------------------------------------------
(* Strings *)

UpperChars == <<"A", "B", "C", "D", "E", "F", "G", "H", "I", "J", "K", "L", "M",
                "N", "O", "P", "Q", "R", "S", "T", "U", "V", "W", "X", "Y", "Z">>
LowerChars == <<"a", "b", "c", "d", "e", "f", "g", "h", "i", "j", "k", "l", "m",
                "n", "o", "p", "q", "r", "s", "t", "u", "v", "w", "x", "y", "z">>

LowerChar(c) ==
  IF \E i \in DOMAIN UpperChars : UpperChars[i] = c
  THEN LowerChars[CHOOSE i \in DOMAIN UpperChars : UpperChars[i] = c]
  ELSE c

\* String.prototype.toLowerCase
toLowerCase(s) == [i \in DOMAIN s |-> LowerChar(s[i])]

\* String.prototype.startsWith
startsWith(s, p) == Len(p) <= Len(s) /\ SubSeq(s, 1, Len(p)) = p

WhiteSpace == {" ", "\t", "\n"}

RECURSIVE trimStart(_)
trimStart(s) ==
  IF s # <<>> /\ Head(s) \in WhiteSpace THEN trimStart(Tail(s)) ELSE s

RECURSIVE trimEnd(_)
trimEnd(s) ==
  IF s # <<>> /\ s[Len(s)] \in WhiteSpace THEN trimEnd(SubSeq(s, 1, Len(s) - 1)) ELSE s

\* String.prototype.trim
trim(s) == trimEnd(trimStart(s))

\* Array.prototype.includes
includes(arr, x) == \E i \in DOMAIN arr : arr[i] = x

\* the alternatives of /^(feishu|lark|fs):/i, each with its colon
ChannelPrefixes == << <<"f", "e", "i", "s", "h", "u", ":">>,
                      <<"l", "a", "r", "k", ":">>,
                      <<"f", "s", ":">> >>

\* s.replace(/^(feishu|lark|fs):/i, ""): the first alternative that matches
\* at position 0, compared without regard to case, is removed once
stripChannelPrefix(s) ==
  IF \E k \in DOMAIN ChannelPrefixes : startsWith(toLowerCase(s), ChannelPrefixes[k])
  THEN LET k == CHOOSE j \in DOMAIN ChannelPrefixes :
                  /\ startsWith(toLowerCase(s), ChannelPrefixes[j])
                  /\ \A h \in 1..(j - 1) : ~startsWith(toLowerCase(s), ChannelPrefixes[h])
       IN SubSeq(s, Len(ChannelPrefixes[k]) + 1, Len(s))
  ELSE s

\* mutant of isSenderAllowed: the sender id is compared as written
isSenderAllowedCaseSensitive(senderId, allowFrom) ==
  \/ includes(allowFrom, <<"*">>)
  \/ \E i \in DOMAIN allowFrom : stripChannelPrefix(toLowerCase(allowFrom[i])) = senderId

WILDCARD == <<"*">>

isSenderAllowed(senderId, allowFrom) ==
  IF includes(allowFrom, WILDCARD) THEN TRUE
  ELSE LET normalizedSenderId == toLowerCase(senderId)
       IN \E i \in DOMAIN allowFrom :
            stripChannelPrefix(toLowerCase(allowFrom[i])) = normalizedSenderId

-----------------------------------------------------------------------------
(* Event classification: the parse block at the top of processMessageEvent *)

IMAGE_PLACEHOLDER == <<"[", "I", "m", "a", "g", "e", "]">>
FILE_PLACEHOLDER == <<"[", "F", "i", "l", "e", "]">>
filePlaceholder(name) == <<"[", "F", "i", "l", "e", ":", " ">> \o name \o <<"]">>

\* traverseContent of extractImageKeys: image keys of img elements, in order,
\* descending into every element's own content array
RECURSIVE traverseContent(_)
traverseContent(items) ==
  IF items = <<>> THEN <<>>
  ELSE LET obj == Head(items)
           own == IF obj.tag = "img" /\ obj.image_key # <<>> THEN <<obj.image_key>> ELSE <<>>
       IN own \o traverseContent(obj.content) \o traverseContent(Tail(items))

RECURSIVE traverseParagraphs(_)
traverseParagraphs(paragraphs) ==
  IF paragraphs = <<>> THEN <<>>
  ELSE traverseContent(Head(paragraphs)) \o traverseParagraphs(Tail(paragraphs))

\* message.content is a JSON string: content.valid says whether JSON.parse
\* accepts it, the other fields are those of the parsed object
extractImageKeys(message) ==
  IF ~message.content.valid THEN <<>>
  ELSE IF message.message_type = "image"
       THEN IF message.content.image_key # <<>> THEN <<message.content.image_key>> ELSE <<>>
  ELSE IF message.message_type = "post"
       THEN traverseParagraphs(message.content.content)
  ELSE <<>>

extractFileKey(message) ==
  IF message.message_type = "file" /\ message.content.valid
  THEN message.content.file_key
  ELSE <<>>

\* extractText of the post branch: text and at elements of one paragraph,
\* nested content is not visited
RECURSIVE extractText(_)
extractText(items) ==
  IF items = <<>> THEN <<>>
  ELSE LET obj == Head(items)
           own == IF obj.tag = "text" THEN obj.text
                  ELSE IF obj.tag = "at" /\ obj.user_name # <<>>
                       THEN <<"@">> \o obj.user_name
                  ELSE <<>>
       IN own \o extractText(Tail(items))

RECURSIVE extractPostText(_)
extractPostText(paragraphs) ==
  IF paragraphs = <<>> THEN <<>>
  ELSE extractText(Head(paragraphs)) \o extractPostText(Tail(paragraphs))

\* textContent after the try block (empty when JSON.parse throws)
parseTextContent(message) ==
  LET content == message.content IN
  IF ~content.valid THEN <<>>
  ELSE IF message.message_type = "text" THEN content.text
  ELSE IF message.message_type = "image" THEN IMAGE_PLACEHOLDER
  ELSE IF message.message_type = "file"
       THEN IF content.file_name # <<>> THEN filePlaceholder(content.file_name)
            ELSE FILE_PLACEHOLDER
  ELSE IF message.message_type = "post"
       THEN LET t == extractPostText(content.content)
            IN IF t = <<>> /\ content.title # <<>> THEN content.title ELSE t
  ELSE content.text

\* imageKeys and fileKey after the try block
parseImageKeys(message) ==
  IF message.content.valid /\ message.message_type \in {"image", "post"}
  THEN extractImageKeys(message)
  ELSE <<>>

parseFileKey(message) ==
  IF message.content.valid /\ message.message_type = "file"
  THEN extractFileKey(message)
  ELSE <<>>

\* mutant of isEmptyMessage: the text is tested without trim()
isEmptyMessageUntrimmed(message) ==
  /\ parseTextContent(message) = <<>>
  /\ parseImageKeys(message) = <<>>
  /\ parseFileKey(message) = <<>>

\* the guard of `return` at "Skip empty messages"
isEmptyMessage(message) ==
  /\ trim(parseTextContent(message)) = <<>>
  /\ parseImageKeys(message) = <<>>
  /\ parseFileKey(message) = <<>>

NoTarget == [id |-> <<>>, type |-> "none"]

\* mutant of resolveSenderTarget: the order of preference is reversed
resolveSenderTargetUnionFirst(event) ==
  LET senderId == event.sender.sender_id IN
  IF senderId.union_id # <<>> THEN [id |-> senderId.union_id, type |-> "union_id"]
  ELSE IF senderId.user_id # <<>> THEN [id |-> senderId.user_id, type |-> "user_id"]
  ELSE IF senderId.open_id # <<>> THEN [id |-> senderId.open_id, type |-> "open_id"]
  ELSE NoTarget

\* null is NoTarget
resolveSenderTarget(event) ==
  LET senderId == event.sender.sender_id IN
  IF senderId.open_id # <<>> THEN [id |-> senderId.open_id, type |-> "open_id"]
  ELSE IF senderId.user_id # <<>> THEN [id |-> senderId.user_id, type |-> "user_id"]
  ELSE IF senderId.union_id # <<>> THEN [id |-> senderId.union_id, type |-> "union_id"]
  ELSE NoTarget

ALL_MENTION == <<"@", "_", "a", "l", "l">>

\* mutant of isBotMentioned: only @all and the structured self-mention count
isBotMentionedByIdOnly(event, botOpenId) ==
  LET mentions == event.message.mentions
  IN \/ \E i \in DOMAIN mentions : mentions[i].name = ALL_MENTION
     \/ /\ botOpenId # <<>>
        /\ \E i \in DOMAIN mentions : mentions[i].id.open_id = botOpenId

\* botOpenId is botInfo?.open_id, empty when botInfo or its open_id is absent
isBotMentioned(event, botOpenId) ==
  LET mentions == event.message.mentions
      content == event.message.content
      text == IF content.valid THEN content.text ELSE <<>>
  IN \/ \E i \in DOMAIN mentions : mentions[i].name = ALL_MENTION
     \/ /\ botOpenId # <<>>
        /\ \E i \in DOMAIN mentions : mentions[i].id.open_id = botOpenId
     \/ \E i \in DOMAIN mentions :
          /\ mentions[i].key # <<>>
          /\ mentions[i].name # <<>>
          /\ content.valid
          /\ \/ startsWith(text, <<"@">> \o mentions[i].name)
             \/ startsWith(text, mentions[i].key)

-----------------------------------------------------------------------------
(* Sample inputs *)

Slots == {1}

ID_a == <<"a">>
ID_b == <<"b">>

NoSenderId == [open_id |-> <<>>, user_id |-> <<>>, union_id |-> <<>>]

\* event.sender.sender_id
SENDER_a == [NoSenderId EXCEPT !.open_id = ID_a]
SENDER_b == [NoSenderId EXCEPT !.user_id = ID_b, !.union_id = <<"c">>]
SENDER_c == [NoSenderId EXCEPT !.union_id = <<"c">>]
SENDER_ab == [NoSenderId EXCEPT !.open_id = ID_a, !.user_id = ID_b]

NoContent ==
  [valid |-> TRUE, text |-> <<>>, image_key |-> <<>>, file_key |-> <<>>,
   file_name |-> <<>>, title |-> <<>>, content |-> <<>>]

\* message_type and parsed content of a text message
TextMessage(t) == [message_type |-> "text", content |-> [NoContent EXCEPT !.text = t]]

\* an image message whose content carries no image_key
IMAGE_noKey == [message_type |-> "image", content |-> NoContent]

\* an image message with its key
IMAGE_k == [message_type |-> "image", content |-> [NoContent EXCEPT !.image_key = <<"k">>]]

\* a post with no paragraph and no title
POST_empty == [message_type |-> "post", content |-> NoContent]

\* a post whose only element is an image
POST_img ==
  [message_type |-> "post",
   content |-> [NoContent EXCEPT !.content =
                  << << [tag |-> "img", image_key |-> <<"k">>, text |-> <<>>,
                         user_name |-> <<>>, content |-> <<>>] >> >>]]

\* a message whose content is not valid JSON
TEXT_invalid == [message_type |-> "text", content |-> [NoContent EXCEPT !.valid = FALSE]]

TEXT_hi == <<"h", "i">>
TEXT_atB == <<"@", "B", " ", "h">>
TEXT_blank == <<" ">>

BOT_OPEN_ID == <<"o">>

Mention(key, name, openId) == [key |-> key, name |-> name, id |-> [open_id |-> openId]]

\* event.message.mentions ?? []
MENTION_bot == << Mention(<<"@", "1">>, <<"B">>, BOT_OPEN_ID) >>
MENTION_other == << Mention(<<"@", "2">>, <<"u">>, ID_b) >>
MENTION_noId == << Mention(<<"@", "1">>, <<"B">>, <<>>) >>

ChatIds == {"oc_1", "oc_2"}

\* An inbound event.  shouldComputeAuth and isControlCommand are the answers
\* of the external command classifier for the event's rawBody.
Event(sid, ct, cid, m, ml, sc, ic) ==
  [sender |-> [sender_id |-> sid],
   message |-> [chat_type |-> ct, chat_id |-> cid, message_type |-> m.message_type,
                content |-> m.content, mentions |-> ml],
   shouldComputeAuth |-> sc, isControlCommand |-> ic]

\* Direct messages: no mentions, one chat; isControlCommandMessage is not
\* consulted for them
DirectEvents ==
  { Event(sid, "p2p", "oc_2", TextMessage(TEXT_hi), <<>>, sc, FALSE) :
      sid \in {SENDER_a, SENDER_b}, sc \in BOOLEAN }
  \cup
  { Event(NoSenderId, "p2p", "oc_2", TextMessage(TEXT_hi), <<>>, FALSE, FALSE),
    Event(SENDER_a, "p2p", "oc_2", TextMessage(TEXT_blank), <<>>, FALSE, FALSE) }

\* Direct messages that exercise the classification: the shapes of an empty
\* message, media without text, and the shapes of sender_id
ClassificationEvents ==
  { Event(SENDER_a, "p2p", "oc_2", m, <<>>, FALSE, FALSE) :
      m \in {IMAGE_noKey, IMAGE_k, POST_empty, POST_img, TEXT_invalid, TextMessage(<<>>)} }
  \cup
  { Event(sid, "p2p", "oc_2", TextMessage(TEXT_hi), <<>>, FALSE, FALSE) :
      sid \in {SENDER_c, SENDER_ab} }
  \cup
  { Event(NoSenderId, "p2p", "oc_2", TextMessage(TEXT_blank), <<>>, FALSE, FALSE) }

\* Group messages of one sender: every shape of mention in both chats, and
\* the classifier's answers for a message that mentions the bot
GroupEvents ==
  { Event(SENDER_a, "group", cid, TextMessage(tm[1]), tm[2], FALSE, FALSE) :
      cid \in ChatIds,
      tm \in { <<TEXT_hi, <<>> >>, <<TEXT_hi, MENTION_bot>>, <<TEXT_hi, MENTION_other>>,
               <<TEXT_atB, MENTION_noId>> } }
  \cup
  { Event(SENDER_a, "group", "oc_1", TextMessage(TEXT_hi), MENTION_bot, c[1], c[2]) :
      c \in { <<FALSE, TRUE>>, <<TRUE, TRUE>>, <<TRUE, FALSE>> } }

NoGroupConfig == [present |-> FALSE, enabled |-> "unset", requireMention |-> "unset"]

\* account.config.groups?.[chatId]; a field is "unset", "true" or "false"
GroupConfigs ==
  { NoGroupConfig,
    [present |-> TRUE, enabled |-> "true", requireMention |-> "unset"],
    [present |-> TRUE, enabled |-> "false", requireMention |-> "unset"],
    [present |-> TRUE, enabled |-> "unset", requireMention |-> "false"],
    [present |-> TRUE, enabled |-> "false", requireMention |-> "false"] }

DefaultAccount ==
  [dmPolicy |-> "unset", allowFrom |-> <<>>, groupPolicy |-> "unset",
   groupAllowFrom |-> <<>>, groups |-> [c \in ChatIds |-> NoGroupConfig]]

\* account.config: accounts that vary the direct-message settings and
\* accounts that vary the group settings (only "oc_1" is ever configured)
DirectAccounts ==
  { [DefaultAccount EXCEPT !.dmPolicy = dp, !.allowFrom = af] :
      dp \in {"unset", "pairing", "allowlist", "open", "disabled"},
      af \in { <<>>, << <<"f", "s", ":", "A">> >>, << WILDCARD >> } }

GroupAccounts ==
  { [DefaultAccount EXCEPT !.groupPolicy = gp, !.groupAllowFrom = ga,
                           !.groups = [c \in ChatIds |-> IF c = "oc_1" THEN gc ELSE NoGroupConfig]] :
      gp \in {"unset", "allowlist", "open"},
      ga \in { <<>>, <<"oc_1">>, <<"*">> },
      gc \in GroupConfigs }

Accounts == DirectAccounts \cup GroupAccounts

\* The events fed to a session: all direct events and one group event for an
\* account that varies the direct-message settings, all group events and one
\* direct event for one that varies the group settings; the default account
\* also receives the events that exercise the classification
InboundEvents(acc) ==
  IF acc = DefaultAccount
  THEN DirectEvents \cup ClassificationEvents
  ELSE IF acc \in GroupAccounts
  THEN GroupEvents \cup {Event(SENDER_a, "p2p", "oc_2", TextMessage(TEXT_hi), <<>>, FALSE, FALSE)}
  ELSE DirectEvents \cup {Event(SENDER_a, "group", "oc_1", TextMessage(TEXT_hi), MENTION_bot, TRUE, TRUE)}

-----------------------------------------------------------------------------
(* processMessageEvent: the decisions between two suspension points *)

NoEvent ==
  [sender |-> [sender_id |-> NoSenderId],
   message |-> [chat_type |-> "p2p", chat_id |-> "oc_2", message_type |-> "text",
                content |-> NoContent, mentions |-> <<>>],
   shouldComputeAuth |-> FALSE, isControlCommand |-> FALSE]

\* One handler invocation.  pc is the suspension point it waits at; trace is
\* the sequence of pipeline steps it has taken; out the platform API calls
\* it has issued, settled how each of them ended; reply is the delivery its
\* dispatcher has called for.
IdleSlot ==
  [pc |-> "idle", event |-> NoEvent, messageId |-> 0,
   readStore |-> "none", storeAllowFrom |-> <<>>, storeAtRead |-> <<>>,
   commandAuthorized |-> "undefined", created |-> "none",
   wasBlocked |-> FALSE, trace |-> <<>>, out |-> <<>>, settled |-> <<>>,
   reply |-> NoDelivery]

Has(r, step) == \E i \in DOMAIN r.trace : r.trace[i] = step

Step(r, steps) == [r EXCEPT !.trace = @ \o steps]

\* mutant of Finish: the invocation never completes
FinishHangs(r, steps) == Step(r, steps)

\* the handler invocation ends (return, or the catch of the handler)
Finish(r, steps) == [Step(r, steps) EXCEPT !.pc = "done"]

isGroup(event) == event.message.chat_type = "group"

\* account.config.dmPolicy ?? "pairing"
dmPolicyOf(acc) == IF acc.dmPolicy = "unset" THEN "pairing" ELSE acc.dmPolicy

\* account.config.groupPolicy ?? "allowlist"
groupPolicyOf(acc) == IF acc.groupPolicy = "unset" THEN "allowlist" ELSE acc.groupPolicy

\* mutant of needsStoreRead: the read is decided by the policy alone
needsStoreReadPolicyOnly(event, acc) == ~isGroup(event) /\ dmPolicyOf(acc) # "open"

\* the condition under which readAllowFromStore is awaited
needsStoreRead(event, acc) ==
  ~isGroup(event) /\ (dmPolicyOf(acc) # "open" \/ event.shouldComputeAuth)

\* mutant of effectiveAllowFrom: the store's entries are left out
effectiveAllowFromConfigOnly(acc, storeAllowFrom) == acc.allowFrom

\* [...configAllowFrom, ...storeAllowFrom]
effectiveAllowFrom(acc, storeAllowFrom) == acc.allowFrom \o storeAllowFrom

\* mutant of dmDecision: the `return` of the not-allowed branch is missing
dmDecisionFallsThrough(policy, allowed) ==
  IF policy = "disabled" THEN "blocked"
  ELSE IF policy = "pairing" /\ ~allowed THEN "pairing"
  ELSE "allow"

\* mutant of dmDecision: every policy but open issues a pairing request
dmDecisionPairsAlways(policy, allowed) ==
  IF policy = "disabled" THEN "blocked"
  ELSE IF policy # "open" /\ ~allowed THEN "pairing"
  ELSE "allow"

\* outcome of the "Check DM policy" block for a direct message
dmDecision(policy, allowed) ==
  IF policy = "disabled" THEN "blocked"
  ELSE IF policy # "open" /\ ~allowed
       THEN IF policy = "pairing" THEN "pairing" ELSE "blocked"
  ELSE "allow"

\* mutant of groupPolicyPasses: the allow list and the override must both agree
groupPolicyPassesBoth(acc, chatId) ==
  LET groupAllowed == includes(acc.groupAllowFrom, "*") \/ includes(acc.groupAllowFrom, chatId)
      groupEnabled == acc.groups[chatId].enabled # "false"
  IN groupPolicyOf(acc) = "allowlist" => (groupAllowed /\ groupEnabled)

\* the group passes the "Check group policy" block
groupPolicyPasses(acc, chatId) ==
  LET groupConfig == acc.groups[chatId]
      groupAllowed == includes(acc.groupAllowFrom, "*") \/ includes(acc.groupAllowFrom, chatId)
      groupEnabled == groupConfig.enabled # "false"
  IN groupPolicyOf(acc) = "allowlist" => (groupAllowed \/ groupEnabled)

\* mutant of requireMention: the gate is opt-in
requireMentionOptIn(acc, chatId) == acc.groups[chatId].requireMention = "true"

\* groupConfig?.requireMention !== false
requireMention(acc, chatId) == acc.groups[chatId].requireMention # "false"

\* mutant of dropsControlCommand: only an explicit denial drops the command
dropsDeniedCommand(event, commandAuthorized) ==
  isGroup(event) /\ event.isControlCommand /\ commandAuthorized = "false"

\* the control-command drop after route resolution
dropsControlCommand(event, commandAuthorized) ==
  isGroup(event) /\ event.isControlCommand /\ commandAuthorized # "true"

\* mutant of afterStoreRead: the route is resolved before the group policy
\* and the mention gate
afterStoreReadRoutesFirst(r, acc, botOpenId, auth, routeOk) ==
  LET event == r.event
      senderId == resolveSenderTarget(event).id
      chatId == event.message.chat_id
      senderAllowedForCommands ==
        isSenderAllowed(senderId, effectiveAllowFrom(acc, r.storeAllowFrom))
      commandAuthorized == IF event.shouldComputeAuth THEN auth ELSE "undefined"
      r1 == [r EXCEPT !.commandAuthorized = commandAuthorized]
      dm == dmDecision(dmPolicyOf(acc), senderAllowedForCommands)
  IN IF ~isGroup(event) /\ dm = "blocked" THEN Finish(r1, <<"blocked">>)
     ELSE IF ~isGroup(event) /\ dm = "pairing" THEN [r1 EXCEPT !.pc = "upsert"]
     ELSE IF ~routeOk THEN Finish(r1, <<"resolveAgentRoute", "error">>)
     ELSE IF isGroup(event) /\ ~groupPolicyPasses(acc, chatId)
          THEN Finish(r1, <<"resolveAgentRoute", "groupBlocked">>)
     ELSE IF /\ isGroup(event)
             /\ requireMention(acc, chatId)
             /\ ~isBotMentioned(event, botOpenId)
          THEN Finish(r1, <<"resolveAgentRoute", "noMention">>)
     ELSE IF dropsControlCommand(event, commandAuthorized)
          THEN Finish(r1, <<"resolveAgentRoute", "dropCommand">>)
     ELSE [Step(r1, <<"resolveAgentRoute">>) EXCEPT !.pc = "record"]

\* From the store read (or its skipping) to the next suspension point.
\* auth is the answer of resolveCommandAuthorizedFromAuthorizers, routeOk
\* whether resolveAgentRoute returns.
afterStoreRead(r, acc, botOpenId, auth, routeOk) ==
  LET event == r.event
      senderId == resolveSenderTarget(event).id
      chatId == event.message.chat_id
      senderAllowedForCommands ==
        isSenderAllowed(senderId, effectiveAllowFrom(acc, r.storeAllowFrom))
      commandAuthorized == IF event.shouldComputeAuth THEN auth ELSE "undefined"
      r1 == [r EXCEPT !.commandAuthorized = commandAuthorized]
      dm == dmDecision(dmPolicyOf(acc), senderAllowedForCommands)
  IN IF ~isGroup(event) /\ dm = "blocked" THEN Finish(r1, <<"blocked">>)
     ELSE IF ~isGroup(event) /\ dm = "pairing" THEN [r1 EXCEPT !.pc = "upsert"]
     ELSE IF isGroup(event) /\ ~groupPolicyPasses(acc, chatId)
          THEN Finish(r1, <<"groupBlocked">>)
     ELSE IF /\ isGroup(event)
             /\ requireMention(acc, chatId)
             /\ ~isBotMentioned(event, botOpenId)
          THEN Finish(r1, <<"noMention">>)
     ELSE IF ~routeOk THEN Finish(r1, <<"resolveAgentRoute", "error">>)
     ELSE IF dropsControlCommand(event, commandAuthorized)
          THEN Finish(r1, <<"resolveAgentRoute", "dropCommand">>)
     ELSE [Step(r1, <<"resolveAgentRoute">>) EXCEPT !.pc = "record"]

\* what resolveCommandAuthorizedFromAuthorizers may answer (boolean | undefined);
\* it is only called when shouldComputeAuth
authAnswers(event) ==
  IF event.shouldComputeAuth THEN {"true", "false", "undefined"} ELSE {"undefined"}

\* the direct-message policy ended this invocation, or sent it to pairing
dmBlocks(r) == ~isGroup(r.event) /\ (Has(r, "blocked") \/ r.pc = "upsert")

Decide(s, r) ==
  \E auth \in authAnswers(r.event), routeOk \in BOOLEAN :
    LET r2 == afterStoreRead(r, account, botInfo, auth, routeOk) IN
    /\ slots' = [slots EXCEPT ![s] = r2]
    /\ blocked' = IF dmBlocks(r2)
                  THEN blocked \cup {resolveSenderTarget(r.event).id}
                  ELSE blocked

-----------------------------------------------------------------------------
(* The im.message.receive_v1 handler of monitorFeishuProvider *)

\* mutant of handlerReturnsEarly: the stopped flag is not consulted
handlerIgnoresStopped(isStopped) == FALSE

\* `if (stopped) return;` at the top of the handler
handlerReturnsEarly(isStopped) == isStopped

\* An event is delivered: the handler runs up to its first suspension point
Receive(s) ==
  /\ slots[s].pc \in {"idle", "done"}
  /\ received < MaxEvents
  /\ received' = received + 1
  /\ \E event \in InboundEvents(account) :
       LET r0 == [IdleSlot EXCEPT !.event = event, !.messageId = received + 1,
                    !.wasBlocked = resolveSenderTarget(event).id \in blocked]
           r == Step(r0, <<"lastInboundAt">>)
       IN IF handlerReturnsEarly(stopped)
          THEN slots' = [slots EXCEPT ![s] = Finish(r0, <<>>)] /\ UNCHANGED blocked
          ELSE IF isEmptyMessage(event.message)
          THEN slots' = [slots EXCEPT ![s] = Finish(r, <<"empty">>)] /\ UNCHANGED blocked
          ELSE IF resolveSenderTarget(event) = NoTarget
          THEN slots' = [slots EXCEPT ![s] = Finish(r, <<"noSender">>)] /\ UNCHANGED blocked
          ELSE IF needsStoreRead(event, account)
          THEN slots' = [slots EXCEPT ![s] = [r EXCEPT !.pc = "readStore"]]
               /\ UNCHANGED blocked
          ELSE Decide(s, r)
  /\ UNCHANGED <<account, botInfo, stopped, storeAllow, pending, fnIn, fnOut, apiVars, delivery, stream>>

\* readAllowFromStore("feishu").catch(() => []) settles
ReadAllowFromStore(s) ==
  /\ slots[s].pc = "readStore"
  /\ \E ok \in BOOLEAN :
       Decide(s, [Step(slots[s], <<"readAllowFromStore">>) EXCEPT
                    !.readStore = IF ok THEN "ok" ELSE "failed",
                    !.storeAllowFrom = IF ok THEN storeAllow ELSE <<>>,
                    !.storeAtRead = storeAllow])
  /\ UNCHANGED <<account, botInfo, stopped, storeAllow, pending, received, fnIn, fnOut, apiVars, delivery, stream>>

\* mutant of afterUpsert: the notice is sent whatever the store answered
afterUpsertResend(r, created) ==
  [r EXCEPT !.created = IF created THEN "true" ELSE "false", !.pc = "notice"]

\* `if (created) { ... send the pairing reply ... }` and the `return` after it
afterUpsert(r, created) ==
  IF created THEN [r EXCEPT !.created = "true", !.pc = "notice"]
  ELSE Finish([r EXCEPT !.created = "false"], <<>>)

\* upsertPairingRequest settles: the store creates the request unless one is
\* pending for the id; a rejection ends in the handler's catch
UpsertPairingRequest(s) ==
  /\ slots[s].pc = "upsert"
  /\ LET r == Step(slots[s], <<"upsertPairingRequest">>)
         senderId == resolveSenderTarget(r.event).id
     IN \/ /\ pending' = pending \cup {senderId}
           /\ slots' = [slots EXCEPT ![s] = afterUpsert(r, senderId \notin pending)]
        \/ /\ UNCHANGED pending
           /\ slots' = [slots EXCEPT ![s] = Finish(r, <<"error">>)]
  /\ UNCHANGED <<account, botInfo, stopped, storeAllow, received, blocked, fnIn, fnOut, apiVars, delivery, stream>>

\* the request of the pairing notice
pairingNotice(r) ==
  [api |-> "sendMessage", receive_id |-> resolveSenderTarget(r.event).id,
   receive_id_type |-> resolveSenderTarget(r.event).type, msg_type |-> "text"]

\* mutant of afterNotice: lastOutboundAt is reported whatever the outcome
afterNoticeAlwaysReports(r, ok) ==
  Finish([r EXCEPT !.settled = Append(@, IF ok THEN "ok" ELSE "failed")], <<"lastOutboundAt">>)

\* the awaited sendMessage of the notice settles: statusSink on success, the
\* catch that logs on failure, and the `return` after both
afterNotice(r, ok) ==
  IF ok THEN Finish([r EXCEPT !.settled = Append(@, "ok")], <<"lastOutboundAt">>)
  ELSE Finish([r EXCEPT !.settled = Append(@, "failed")], <<>>)

SendPairingReply(s) ==
  /\ slots[s].pc = "notice"
  /\ LET r == [Step(slots[s], <<"sendMessage">>) EXCEPT !.out = Append(@, pairingNotice(slots[s]))]
     IN \E ok \in BOOLEAN :
          slots' = [slots EXCEPT ![s] = afterNotice(r, ok)]
  /\ UNCHANGED <<account, botInfo, stopped, storeAllow, pending, received, blocked, fnIn, fnOut, apiVars, delivery, stream>>

\* recordInboundSession settles: it resolves (having reported a failure
\* through onRecordError or not) or rejects into the handler's catch
RecordInboundSession(s) ==
  /\ slots[s].pc = "record"
  /\ LET r == Step(slots[s], <<"recordInboundSession">>)
     IN \E outcome \in {"ok", "onRecordError", "rejects"} :
          slots' = [slots EXCEPT ![s] =
                      IF outcome = "rejects" THEN Finish(r, <<"error">>)
                      ELSE IF outcome = "onRecordError"
                           THEN [Step(r, <<"onRecordError">>) EXCEPT !.pc = "dispatch"]
                      ELSE [r EXCEPT !.pc = "dispatch"]]
  /\ UNCHANGED <<account, botInfo, stopped, storeAllow, pending, received, blocked, fnIn, fnOut, apiVars, delivery, stream>>

\* dispatchReplyWithBufferedBlockDispatcher settles
DispatchReply(s) ==
  /\ slots[s].pc = "dispatch"
  /\ LET r == Step(slots[s], <<"dispatchReply">>)
     IN \E ok \in BOOLEAN :
          slots' = [slots EXCEPT ![s] =
                      IF ok THEN Finish(r, <<>>) ELSE Finish(r, <<"error">>)]
  /\ UNCHANGED <<account, botInfo, stopped, storeAllow, pending, received, blocked, fnIn, fnOut, apiVars, delivery, stream>>

\* stop(), called directly or by the listener of the abort signal; it may be
\* called again
Stop ==
  /\ stopped' = TRUE
  /\ UNCHANGED <<account, botInfo, storeAllow, pending, slots, received, blocked, fnIn, fnOut, apiVars, delivery, stream>>

-----------------------------------------------------------------------------
(* The pairing store's administrator *)

StoreIds == {ID_a}

\* an id is approved: it joins the allow list, its pending request is closed
Approve(id) ==
  /\ ~includes(storeAllow, id)
  /\ storeAllow' = Append(storeAllow, id)
  /\ pending' = pending \ {id}
  /\ UNCHANGED <<account, botInfo, stopped, slots, received, blocked, fnIn, fnOut, apiVars, delivery, stream>>

\* a pending request expires
Expire(id) ==
  /\ id \in pending
  /\ pending' = pending \ {id}
  /\ UNCHANGED <<account, botInfo, stopped, storeAllow, slots, received, blocked, fnIn, fnOut, apiVars, delivery, stream>>

-----------------------------------------------------------------------------
(* The session: one handler invocation at a time, the store's administrator *)
(* acting between any two of its steps                                      *)

Init ==
  /\ account \in Accounts
  /\ botInfo \in {<<>>, BOT_OPEN_ID}
  /\ stopped = FALSE
  /\ storeAllow = <<>>
  /\ pending = {}
  /\ slots = [s \in Slots |-> IdleSlot]
  /\ received = 0
  /\ blocked = {}
  /\ fnIn = <<>>
  /\ fnOut = <<>>
  /\ IdleApi
  /\ IdleDelivery
  /\ IdleStream

Next ==
  \/ \E s \in Slots : Receive(s)
  \/ \E s \in Slots : ReadAllowFromStore(s)
  \/ \E s \in Slots : UpsertPairingRequest(s)
  \/ \E s \in Slots : SendPairingReply(s)
  \/ \E s \in Slots : RecordInboundSession(s)
  \/ \E s \in Slots : DispatchReply(s)
  \/ Stop
  \/ \E id \in StoreIds : Approve(id)
  \/ \E id \in StoreIds : Expire(id)

Spec == Init /\ [][Next]_vars

-----------------------------------------------------------------------------
(* Two handler invocations in flight: the event emitter starts the handler *)
(* for the next event while an earlier invocation is suspended              *)

RaceSlots == {1, 2}

InitRace ==
  /\ account = [DefaultAccount EXCEPT !.dmPolicy = "pairing"]
  /\ botInfo = <<>>
  /\ stopped = FALSE
  /\ storeAllow = <<>>
  /\ pending = {}
  /\ slots = [s \in RaceSlots |-> IdleSlot]
  /\ received = 0
  /\ blocked = {}
  /\ fnIn = <<>>
  /\ fnOut = <<>>
  /\ IdleApi
  /\ IdleDelivery
  /\ IdleStream

NextRace ==
  \/ \E s \in RaceSlots : Receive(s)
  \/ \E s \in RaceSlots : ReadAllowFromStore(s)
  \/ \E s \in RaceSlots : UpsertPairingRequest(s)
  \/ \E s \in RaceSlots : SendPairingReply(s)
  \/ \E s \in RaceSlots : RecordInboundSession(s)
  \/ \E s \in RaceSlots : DispatchReply(s)
  \/ Stop
  \/ \E id \in StoreIds : Approve(id)
  \/ \E id \in StoreIds : Expire(id)

SpecRace == InitRace /\ [][NextRace]_vars

-----------------------------------------------------------------------------
(* isSenderAllowed applied to sample sender ids and allow lists *)

MaxAllowLen == 2

AllowSenderIds ==
  { <<"a">>, <<"A">>, <<"b">>, <<"f", "s", ":", "a">>, <<"*">> }

AllowEntries ==
  { <<"a">>, <<"A">>, <<"b">>, WILDCARD,
    <<"f", "s", ":", "A">>, <<"F", "S", ":", "a">>,
    <<"L", "a", "r", "k", ":", "b">>, <<"f", "e", "i", "s", "h", "u", ":", "a">>,
    <<"f", "s", ":", "f", "s", ":", "a">>, <<"f", "s", ":", "*">>, <<"x", ":", "a">> }

AllowLists == UNION { [1..n -> AllowEntries] : n \in 0..MaxAllowLen }

InitAllow ==
  /\ account = DefaultAccount
  /\ botInfo = <<>>
  /\ stopped = FALSE
  /\ storeAllow = <<>>
  /\ pending = {}
  /\ slots = [s \in Slots |-> IdleSlot]
  /\ received = 0
  /\ blocked = {}
  /\ fnIn \in [senderId : AllowSenderIds, allowFrom : AllowLists]
  /\ fnOut = [done |-> FALSE, value |-> FALSE]
  /\ IdleApi
  /\ IdleDelivery
  /\ IdleStream

CallIsSenderAllowed ==
  /\ ~fnOut.done
  /\ fnOut' = [done |-> TRUE, value |-> isSenderAllowed(fnIn.senderId, fnIn.allowFrom)]
  /\ UNCHANGED <<account, botInfo, stopped, storeAllow, pending, slots, received, blocked, fnIn, apiVars, delivery, stream>>

NextAllow == CallIsSenderAllowed

SpecAllow == InitAllow /\ [][NextAllow]_vars

-----------------------------------------------------------------------------
(* isBotMentioned applied to sample group messages *)

MentionSamples ==
  { Mention(ALL_MENTION, ALL_MENTION, <<>>),
    Mention(<<"@", "1">>, <<"B">>, BOT_OPEN_ID),
    Mention(<<"@", "2">>, <<"u">>, ID_b),
    Mention(<<>>, <<"B">>, <<>>),
    Mention(<<"@", "1">>, <<>>, <<>>) }

MentionLists == UNION { [1..n -> MentionSamples] : n \in 0..MaxMentions }

\* text messages that start with a mention's name, with a mention's key, with
\* neither, and a content that is not valid JSON
MentionMessages ==
  { TextMessage(t) : t \in { TEXT_hi, TEXT_atB, <<"@", "2", " ", "h">>,
                             <<"h", " ", "@", "B">>, <<>> } }
  \cup {TEXT_invalid}

InitMention ==
  /\ account = DefaultAccount
  /\ botInfo = <<>>
  /\ stopped = FALSE
  /\ storeAllow = <<>>
  /\ pending = {}
  /\ slots = [s \in Slots |-> IdleSlot]
  /\ received = 0
  /\ blocked = {}
  /\ fnIn \in { [event |-> Event(SENDER_a, "group", "oc_1", m, ml, FALSE, FALSE),
                  botOpenId |-> b] :
                  m \in MentionMessages, ml \in MentionLists, b \in {<<>>, BOT_OPEN_ID, ID_b} }
  /\ fnOut = [done |-> FALSE, value |-> FALSE]
  /\ IdleApi
  /\ IdleDelivery
  /\ IdleStream

CallIsBotMentioned ==
  /\ ~fnOut.done
  /\ fnOut' = [done |-> TRUE, value |-> isBotMentioned(fnIn.event, fnIn.botOpenId)]
  /\ UNCHANGED <<account, botInfo, stopped, storeAllow, pending, slots, received, blocked, fnIn, apiVars, delivery, stream>>

NextMention == CallIsBotMentioned

SpecMention == InitMention /\ [][NextMention]_vars

-----------------------------------------------------------------------------
(* api.ts: getTenantAccessToken and the token cache, called concurrently *)

\* the pipeline at rest, for the specifications of the API client
IdlePipeline ==
  /\ account = DefaultAccount
  /\ botInfo = <<>>
  /\ stopped = FALSE
  /\ storeAllow = <<>>
  /\ pending = {}
  /\ slots = [s \in Slots |-> IdleSlot]
  /\ received = 0
  /\ blocked = {}

TOKEN_BUFFER_MS == 5 * 60 * 1000

DEFAULT_EXPIRE == 7200

\* the readings of Date.now() a step may see, around the two expiry horizons
ClockReadings == {0, 500, 1000, 6900000}

\* data.expire of the exchange response (absent, or a number of seconds)
Expires == { <<FALSE, 0>>, <<TRUE, 300>>, <<TRUE, 301>> }

\* The bodies the credential exchange may answer with: status code zero or
\* not, tenant_access_token present (the token the platform issues next) or
\* absent
TokenResponses(next) ==
  { [code |-> 0, token |-> next, hasExpire |-> e[1], expire |-> e[2]] : e \in Expires }
  \cup
  { [code |-> c, token |-> 0, hasExpire |-> FALSE, expire |-> 0] : c \in {0, 99991663} }
  \cup
  { [code |-> 99991663, token |-> next, hasExpire |-> FALSE, expire |-> 0] }

\* data.expire ?? 7200
expireOf(response) == IF response.hasExpire THEN response.expire ELSE DEFAULT_EXPIRE

\* mutant of isCacheFresh: the safety buffer is left out
isCacheFreshNoBuffer(cached, now) == cached.present /\ cached.expiresAt > now

\* cached && cached.expiresAt > now + 5 * 60 * 1000
isCacheFresh(cached, now) == cached.present /\ cached.expiresAt > now + TOKEN_BUFFER_MS

\* mutant of cacheSet: an entry already present keeps its token
cacheSetKeepsToken(cache, appId, token, expiresAt) ==
  [cache EXCEPT ![appId] =
     [present |-> TRUE, token |-> IF @.present THEN @.token ELSE token, expiresAt |-> expiresAt]]

\* tokenCache.set(cacheKey, { token, expiresAt })
cacheSet(cache, appId, token, expiresAt) ==
  [cache EXCEPT ![appId] = [present |-> TRUE, token |-> token, expiresAt |-> expiresAt]]

\* getTenantAccessToken up to its return of the cached token or to the await
\* of the exchange; the calls are numbered in the order they start
GetTenantAccessToken(c, appId) ==
  /\ tokenCalls[c].pc = "idle"
  /\ \A d \in Callers : d < c => tokenCalls[d].pc # "idle"
  /\ LET cached == tokenCache[appId]
         now == clock
         call == [IdleCall EXCEPT !.appId = appId, !.now = now, !.cached = tokenCache]
     IN tokenCalls' = [tokenCalls EXCEPT ![c] =
                         IF isCacheFresh(cached, now)
                         THEN [call EXCEPT !.pc = "returned", !.token = cached.token]
                         ELSE [call EXCEPT !.pc = "exchange", !.exchanges = 1]]
  /\ UNCHANGED <<pipelineVars, fnIn, fnOut, tokenCache, clock, issued, exchanged, delivery, stream>>

\* the exchange answers with a body: `if (!token) throw`, else the cache is
\* written and the token returned
ExchangeResponds(c) ==
  /\ tokenCalls[c].pc = "exchange"
  /\ \E response \in TokenResponses(issued + 1) :
       LET call == tokenCalls[c]
           token == response.token
           expire == expireOf(response)
       IN IF token = 0
          THEN /\ tokenCalls' = [tokenCalls EXCEPT ![c] =
                                   [call EXCEPT !.pc = "failed", !.response = response,
                                                !.error = "FeishuApiError"]]
               /\ UNCHANGED <<tokenCache, issued, exchanged>>
          ELSE /\ tokenCache' = cacheSet(tokenCache, call.appId, token, call.now + expire * 1000)
               /\ issued' = issued + 1
               /\ tokenCalls' = [tokenCalls EXCEPT ![c] =
                                   [call EXCEPT !.pc = "returned", !.response = response,
                                                !.token = token]]
               /\ exchanged' = Append(exchanged,
                                      [appId |-> call.appId, now |-> call.now,
                                       response |-> response,
                                       written |-> tokenCache'[call.appId],
                                       others |-> \A a \in AppIds \ {call.appId} :
                                                    tokenCache'[a] = tokenCache[a]])
  /\ UNCHANGED <<pipelineVars, fnIn, fnOut, clock, delivery, stream>>

\* mutant of ExchangeRejects: a rejected exchange evicts the entry of its app id
ExchangeRejectsEvicts(c) ==
  /\ tokenCalls[c].pc = "exchange"
  /\ tokenCalls' = [tokenCalls EXCEPT ![c] = [@ EXCEPT !.pc = "failed", !.error = "other"]]
  /\ tokenCache' = [tokenCache EXCEPT ![tokenCalls[c].appId] = NoCachedToken]
  /\ UNCHANGED <<pipelineVars, fnIn, fnOut, clock, issued, exchanged, delivery, stream>>

\* the fetch rejects (network failure, timeout abort) or response.json() throws
ExchangeRejects(c) ==
  /\ tokenCalls[c].pc = "exchange"
  /\ tokenCalls' = [tokenCalls EXCEPT ![c] = [@ EXCEPT !.pc = "failed", !.error = "other"]]
  /\ UNCHANGED <<pipelineVars, fnIn, fnOut, tokenCache, clock, issued, exchanged, delivery, stream>>

\* clearTokenCache(appId)
ClearTokenCache(appId) ==
  /\ tokenCache[appId].present
  /\ tokenCache' = [tokenCache EXCEPT ![appId] = NoCachedToken]
  /\ UNCHANGED <<pipelineVars, fnIn, fnOut, clock, tokenCalls, issued, exchanged, delivery, stream>>

\* time passes
Tick ==
  /\ \E t \in ClockReadings : t > clock /\ clock' = t
  /\ UNCHANGED <<pipelineVars, fnIn, fnOut, tokenCache, tokenCalls, issued, exchanged, delivery, stream>>

InitToken ==
  /\ IdlePipeline
  /\ fnIn = <<>>
  /\ fnOut = <<>>
  /\ IdleApi
  /\ IdleDelivery
  /\ IdleStream

NextToken ==
  \/ \E c \in Callers, appId \in AppIds : GetTenantAccessToken(c, appId)
  \/ \E c \in Callers : ExchangeResponds(c)
  \/ \E c \in Callers : ExchangeRejects(c)
  \/ \E appId \in AppIds : ClearTokenCache(appId)
  \/ Tick

SpecToken == InitToken /\ [][NextToken]_vars

\* The cache as earlier calls may have left it: for each app id no entry, or
\* the token of an exchange made at time 0 with the default lifetime
WarmCaches ==
  { [a \in AppIds |-> IF a \in apps
                      THEN [present |-> TRUE, token |-> IF a = "cli_1" THEN 1 ELSE 2,
                            expiresAt |-> DEFAULT_EXPIRE * 1000]
                      ELSE NoCachedToken] : apps \in SUBSET AppIds }

InitWarmCache ==
  /\ IdlePipeline
  /\ fnIn = <<>>
  /\ fnOut = <<>>
  /\ tokenCache \in WarmCaches
  /\ clock = 0
  /\ tokenCalls = [c \in Callers |-> IdleCall]
  /\ issued = Cardinality(AppIds)
  /\ exchanged = <<>>
  /\ IdleDelivery
  /\ IdleStream

SpecWarmCache == InitWarmCache /\ [][NextToken]_vars

-----------------------------------------------------------------------------
(* api.ts: callFeishuApi applied to what the transport may answer *)

Endpoints == {"/im/v1/messages", "/im/v1/messages/om_1/reply", "/bot/v3/info"}

\* response.json(): hasCode and hasMsg say whether the body carries code and msg
ApiBodies ==
  { [valid |-> TRUE, hasCode |-> c[1], code |-> c[2], hasMsg |-> m[1], msg |-> m[2]] :
      c \in { <<TRUE, 0>>, <<TRUE, 230001>>, <<FALSE, 0>> },
      m \in { <<FALSE, "">>, <<TRUE, "ok">>, <<TRUE, "bot is not in the chat">> } }
  \cup
  { [valid |-> FALSE, hasCode |-> FALSE, code |-> 0, hasMsg |-> FALSE, msg |-> ""] }

\* one request: the endpoint, whether the fetch resolves, and the HTTP status
\* and body of its response
ApiExchanges ==
  { [endpoint |-> e, fetch |-> "resolves", status |-> st, body |-> b] :
      e \in Endpoints, st \in {200, 400, 500}, b \in ApiBodies }
  \cup
  { [endpoint |-> e, fetch |-> "rejects", status |-> 0,
     body |-> [valid |-> FALSE, hasCode |-> FALSE, code |-> 0, hasMsg |-> FALSE, msg |-> ""]] :
      e \in Endpoints }

NoApiResult == [kind |-> "none", message |-> "", hasCode |-> FALSE, code |-> 0,
                hasMsg |-> FALSE, msg |-> ""]

\* a thrown FeishuApiError(data.msg ?? `Feishu API error: ${endpoint}`, data.code, data.msg)
FeishuApiError(endpoint, data) ==
  [kind |-> "FeishuApiError",
   message |-> IF data.hasMsg THEN data.msg ELSE "Feishu API error: " \o endpoint,
   hasCode |-> data.hasCode, code |-> data.code, hasMsg |-> data.hasMsg, msg |-> data.msg]

\* mutant of callFeishuApi: the HTTP status is tested before the body
callFeishuApiChecksStatus(x) ==
  IF x.fetch = "rejects" \/ ~x.body.valid \/ x.status # 200
  THEN [NoApiResult EXCEPT !.kind = "Error"]
  ELSE IF ~(x.body.hasCode /\ x.body.code = 0)
       THEN FeishuApiError(x.endpoint, x.body)
  ELSE [NoApiResult EXCEPT !.kind = "returned", !.hasCode = TRUE, !.code = x.body.code,
                           !.hasMsg = x.body.hasMsg, !.msg = x.body.msg]

\* callFeishuApi: the outcome of the call, returned data or thrown error
callFeishuApi(x) ==
  IF x.fetch = "rejects" \/ ~x.body.valid
  THEN [NoApiResult EXCEPT !.kind = "Error"]
  ELSE IF ~(x.body.hasCode /\ x.body.code = 0)
       THEN FeishuApiError(x.endpoint, x.body)
  ELSE [NoApiResult EXCEPT !.kind = "returned", !.hasCode = TRUE, !.code = x.body.code,
                           !.hasMsg = x.body.hasMsg, !.msg = x.body.msg]

InitCall ==
  /\ IdlePipeline
  /\ fnIn \in ApiExchanges
  /\ fnOut = [done |-> FALSE, value |-> NoApiResult]
  /\ IdleApi
  /\ IdleDelivery
  /\ IdleStream

CallFeishuApi ==
  /\ ~fnOut.done
  /\ fnOut' = [done |-> TRUE, value |-> callFeishuApi(fnIn)]
  /\ UNCHANGED <<pipelineVars, fnIn, apiVars, delivery, stream>>

NextCall == CallFeishuApi

SpecCall == InitCall /\ [][NextCall]_vars

-----------------------------------------------------------------------------
(* deliverFeishuReply: a reply sent in chunks *)

\* what chunkMarkdownTextWithMode may return for a text: up to MaxChunks chunks
ChunkNames == <<"c1", "c2", "c3", "c4", "c5">>

Chunkings == { SubSeq(ChunkNames, 1, n) : n \in 0..MaxChunks }

\* receiveId and receiveIdType: the sender of a direct message, or the chat
ReplyTargets ==
  { [id |-> <<"a">>, type |-> "open_id"],
    [id |-> <<"o", "c", "_", "1">>, type |-> "chat_id"] }

\* senderId and replyToMessageId are optional parameters
DeliverySenderIds == { <<>>, <<"a">>, <<" ">> }

ReplyToMessageIds == {"", "om_1"}

\* the cursor appended while streaming (a space and a block glyph in the source)
STREAMING_INDICATOR == " |"

\* buildMarkdownCard: the markdown content of the card, as the parts it is
\* concatenated from
buildMarkdownCard(content, mentionUserId, isStreaming) ==
  (IF trim(mentionUserId) # <<>> THEN << [at |-> mentionUserId] >> ELSE <<>>)
  \o << [text |-> content] >>
  \o (IF isStreaming THEN << [cursor |-> STREAMING_INDICATOR] >> ELSE <<>>)

\* mutant of transmission: every chunk is a reply that mentions the sender
transmissionAlwaysReplies(d, i) ==
  LET content == buildMarkdownCard(d.chunks[i + 1], d.senderId, FALSE)
  IN IF d.replyToMessageId # ""
     THEN [api |-> "replyMessage", message_id |-> d.replyToMessageId, receive_id |-> <<>>,
           receive_id_type |-> "none", msg_type |-> "interactive", content |-> content,
           unsettled |-> d.unsettled]
     ELSE [api |-> "sendMessage", message_id |-> "", receive_id |-> d.receiveId,
           receive_id_type |-> d.receiveIdType, msg_type |-> "interactive", content |-> content,
           unsettled |-> d.unsettled]

\* the call the loop body issues for chunks[i]
transmission(d, i) ==
  LET chunk == d.chunks[i + 1]
      mentionUserId == IF i = 0 THEN d.senderId ELSE <<>>
      content == buildMarkdownCard(chunk, mentionUserId, FALSE)
  IN IF i = 0 /\ d.replyToMessageId # ""
     THEN [api |-> "replyMessage", message_id |-> d.replyToMessageId, receive_id |-> <<>>,
           receive_id_type |-> "none", msg_type |-> "interactive", content |-> content,
           unsettled |-> d.unsettled]
     ELSE [api |-> "sendMessage", message_id |-> "", receive_id |-> d.receiveId,
           receive_id_type |-> d.receiveIdType, msg_type |-> "interactive", content |-> content,
           unsettled |-> d.unsettled]

\* the loop at index i: the call for chunks[i] is issued and awaited, or the
\* loop ends
loopAt(d, i) ==
  IF i < Len(d.chunks)
  THEN [d EXCEPT !.pc = "await", !.i = i, !.out = Append(@, transmission(d, i)),
                 !.unsettled = @ + 1]
  ELSE [d EXCEPT !.pc = "done", !.i = i]

\* deliverFeishuReply is called: up to the await of the first transmission
DeliverFeishuReply ==
  /\ delivery.pc = "idle"
  /\ \E text \in {"", "text"}, chunks \in Chunkings, target \in ReplyTargets,
        senderId \in DeliverySenderIds, replyToMessageId \in ReplyToMessageIds :
       LET d == [NoDelivery EXCEPT !.text = text,
                                   !.chunks = IF text = "" THEN <<>> ELSE chunks,
                                   !.senderId = senderId,
                                   !.replyToMessageId = replyToMessageId,
                                   !.receiveId = target.id, !.receiveIdType = target.type]
       IN delivery' = IF text = "" THEN [d EXCEPT !.pc = "done"] ELSE loopAt(d, 0)
  /\ UNCHANGED <<pipelineVars, fnIn, fnOut, apiVars, stream>>

\* mutant of settle: a failed transmission ends the delivery with its error
settleRaisesFailure(d, ok) ==
  LET d1 == [d EXCEPT !.unsettled = @ - 1,
                      !.settled = Append(@, IF ok THEN "ok" ELSE "failed"),
                      !.lastOutboundAt = IF ok THEN @ + 1 ELSE @]
  IN IF ok THEN loopAt(d1, d.i + 1) ELSE [d1 EXCEPT !.pc = "raised"]

\* mutant of settle: statusSink is called whatever the outcome
settleReportsFailure(d, ok) ==
  loopAt([d EXCEPT !.unsettled = @ - 1,
                   !.settled = Append(@, IF ok THEN "ok" ELSE "failed"),
                   !.lastOutboundAt = @ + 1],
         d.i + 1)

\* the rest of the loop body once the awaited call has settled: statusSink on
\* success, the catch on failure, then the next iteration
settle(d, ok) ==
  loopAt([d EXCEPT !.unsettled = @ - 1,
                   !.settled = Append(@, IF ok THEN "ok" ELSE "failed"),
                   !.lastOutboundAt = IF ok THEN @ + 1 ELSE @],
         d.i + 1)

\* the awaited replyMessage / sendMessage settles
TransmissionSettles ==
  /\ delivery.pc = "await"
  /\ \E ok \in BOOLEAN : delivery' = settle(delivery, ok)
  /\ UNCHANGED <<pipelineVars, fnIn, fnOut, apiVars, stream>>

InitDeliver ==
  /\ IdlePipeline
  /\ fnIn = <<>>
  /\ fnOut = <<>>
  /\ IdleApi
  /\ IdleDelivery
  /\ IdleStream

NextDeliver ==
  \/ DeliverFeishuReply
  \/ TransmissionSettles

SpecDeliver == InitDeliver /\ [][NextDeliver]_vars

-----------------------------------------------------------------------------
(* The dispatcher's deliver callback: replies of concurrently handled events *)

\* message.message_id of the event an invocation handles
messageIdOf(r) == "om_" \o ToString(r.messageId)

\* mutant of replyTarget: the reply always goes to the sender
replyTargetAlwaysSender(event) == resolveSenderTarget(event)

\* replyTarget: the chat for a group message, the sender for a direct one
replyTarget(event) ==
  IF isGroup(event) THEN [id |-> event.message.chat_id, type |-> "chat_id"]
  ELSE resolveSenderTarget(event)

\* the parameters the deliver callback passes to deliverFeishuReply, taken
\* from the locals of the invocation; the transmissions of earlier calls of
\* the callback are kept
replyOf(r, chunks) ==
  [r.reply EXCEPT !.pc = "idle", !.text = "text", !.chunks = chunks, !.i = 0,
                  !.senderId = resolveSenderTarget(r.event).id,
                  !.replyToMessageId = messageIdOf(r),
                  !.receiveId = replyTarget(r.event).id,
                  !.receiveIdType = replyTarget(r.event).type]

\* the dispatcher calls deliver(payload) with a non-empty text: up to the
\* await of the first transmission
DispatcherDelivers(s) ==
  /\ slots[s].pc = "dispatch"
  /\ slots[s].reply.pc \in {"idle", "done"}
  /\ \E chunks \in Chunkings :
       /\ chunks # <<>>
       /\ Len(slots[s].reply.out) + Len(chunks) <= MaxReplies
       /\ slots' = [slots EXCEPT ![s].reply = loopAt(replyOf(slots[s], chunks), 0)]
  /\ UNCHANGED <<account, botInfo, stopped, storeAllow, pending, received, blocked, fnIn, fnOut, apiVars, delivery, stream>>

\* the awaited replyMessage / sendMessage of a reply settles
ReplySettles(s) ==
  /\ slots[s].reply.pc = "await"
  /\ \E ok \in BOOLEAN : slots' = [slots EXCEPT ![s].reply = settle(slots[s].reply, ok)]
  /\ UNCHANGED <<account, botInfo, stopped, storeAllow, pending, received, blocked, fnIn, fnOut, apiVars, delivery, stream>>

InitReply ==
  /\ account = [DefaultAccount EXCEPT !.dmPolicy = "open", !.groupPolicy = "open"]
  /\ botInfo = BOT_OPEN_ID
  /\ stopped = FALSE
  /\ storeAllow = <<>>
  /\ pending = {}
  /\ slots = [s \in RaceSlots |-> IdleSlot]
  /\ received = 0
  /\ blocked = {}
  /\ fnIn = <<>>
  /\ fnOut = <<>>
  /\ IdleApi
  /\ IdleDelivery
  /\ IdleStream

NextReply ==
  \/ \E s \in RaceSlots : Receive(s)
  \/ \E s \in RaceSlots : ReadAllowFromStore(s)
  \/ \E s \in RaceSlots : RecordInboundSession(s)
  \/ \E s \in RaceSlots : DispatcherDelivers(s)
  \/ \E s \in RaceSlots : ReplySettles(s)
  \/ \E s \in RaceSlots : slots[s].reply.pc # "await" /\ DispatchReply(s)

SpecReply == InitReply /\ [][NextReply]_vars

-----------------------------------------------------------------------------
(* The public send operations: sendMessageFeishu, sendImageFeishu and       *)
(* sendFileFeishu, each applied to sample targets and platform answers      *)

Digits == {"0", "1", "2", "3", "4", "5", "6", "7", "8", "9"}

\* /^[a-zA-Z0-9]+$/.test(s)
isAlphanumeric(s) ==
  /\ s # <<>>
  /\ \A i \in DOMAIN s :
       \/ s[i] \in Digits
       \/ \E k \in DOMAIN UpperChars : s[i] = UpperChars[k] \/ s[i] = LowerChars[k]

normalizeTarget(target) == stripChannelPrefix(trim(target))

inferReceiveIdType(target) ==
  LET trimmed == normalizeTarget(target) IN
  IF startsWith(trimmed, <<"o", "c", "_">>) THEN "chat_id"
  ELSE IF startsWith(trimmed, <<"o", "u", "_">>) THEN "open_id"
  ELSE IF startsWith(trimmed, <<"o", "n", "_">>) THEN "union_id"
  ELSE IF isAlphanumeric(trimmed) /\ ~includes(trimmed, "@") THEN "user_id"
  ELSE IF includes(trimmed, "@") THEN "email"
  ELSE "open_id"

\* the `to` argument: ids of every shape, bare and with a channel prefix,
\* padded with spaces, prefixed twice, empty and blank
SendTargets ==
  { <<"o", "c", "_", "1">>, <<"o", "u", "_", "1">>, <<"o", "n", "_", "1">>,
    <<"u", "1">>, <<"a", "@", "b">>, <<"x", "-", "1">>,
    <<"f", "e", "i", "s", "h", "u", ":", "o", "c", "_", "1">>,
    <<"F", "S", ":", "o", "u", "_", "1">>,
    <<"l", "a", "r", "k", ":", "u", "1">>,
    <<" ", "o", "c", "_", "1", " ">>,
    <<"f", "s", ":", "f", "s", ":", "o", "c", "_", "1">>,
    <<"f", "s", ":", " ", "o", "c", "_", "1">>,
    <<>>, <<" ">> }

\* what the awaited API call does: it throws (a FeishuApiError for a
\* non-zero code, or the transport's error), or it returns the response
\* body, whose code is then 0, with or without data and msg
SendAnswers ==
  { [throws |-> TRUE, code |-> 0, hasData |-> FALSE, hasId |-> FALSE, hasMsg |-> FALSE],
    [throws |-> FALSE, code |-> 0, hasData |-> TRUE, hasId |-> TRUE, hasMsg |-> TRUE],
    [throws |-> FALSE, code |-> 0, hasData |-> TRUE, hasId |-> FALSE, hasMsg |-> FALSE],
    [throws |-> FALSE, code |-> 0, hasData |-> FALSE, hasId |-> FALSE, hasMsg |-> TRUE],
    [throws |-> FALSE, code |-> 0, hasData |-> FALSE, hasId |-> FALSE, hasMsg |-> FALSE] }

\* one call of a send operation: op is "message", "image" or "file"; key is
\* the text, image key or file key; receiveIdType is options.receiveIdType
\* ("unset" when absent)
SendInputs ==
  [op : {"message", "image", "file"}, hasCredentials : BOOLEAN, to : SendTargets,
   key : {<<>>, <<"k">>}, receiveIdType : {"unset", "chat_id"},
   replyToMessageId : {"", "om_1"}, mentionUserId : {ID_a}, answer : SendAnswers]

NoSendResult ==
  [raised |-> FALSE, ok |-> FALSE, hasMessageId |-> FALSE, error |-> "", calls |-> <<>>]

sendFailure(error) == [NoSendResult EXCEPT !.error = error]

\* the fallback of `response.msg ?? ...`
sendFallback(op, isReply) ==
  IF op = "image" THEN "Failed to send image"
  ELSE IF op = "file" THEN "Failed to send file"
  ELSE IF isReply THEN "Failed to reply"
  ELSE "Failed to send message"

\* mutant of sendOutcome: the error of the API call is not caught
sendOutcomeRethrows(x, call) ==
  IF x.answer.throws THEN [NoSendResult EXCEPT !.raised = TRUE, !.calls = <<call>>]
  ELSE IF x.answer.code = 0 /\ x.answer.hasData
       THEN [NoSendResult EXCEPT !.ok = TRUE, !.hasMessageId = x.answer.hasId, !.calls = <<call>>]
  ELSE [NoSendResult EXCEPT !.calls = <<call>>,
          !.error = IF x.answer.hasMsg THEN "msg" ELSE sendFallback(x.op, call.api = "replyMessage")]

\* the try block around the awaited call and its catch
sendOutcome(x, call) ==
  IF x.answer.throws THEN [NoSendResult EXCEPT !.error = "thrown", !.calls = <<call>>]
  ELSE IF x.answer.code = 0 /\ x.answer.hasData
       THEN [NoSendResult EXCEPT !.ok = TRUE, !.hasMessageId = x.answer.hasId, !.calls = <<call>>]
  ELSE [NoSendResult EXCEPT !.calls = <<call>>,
          !.error = IF x.answer.hasMsg THEN "msg" ELSE sendFallback(x.op, call.api = "replyMessage")]

\* options.receiveIdType ?? inferReceiveIdType(normalizedTo)
sendReceiveIdType(x, normalizedTo) ==
  IF x.receiveIdType # "unset" THEN x.receiveIdType ELSE inferReceiveIdType(normalizedTo)

\* sendMessageFeishu / sendImageFeishu / sendFileFeishu
sendFeishu(x) ==
  IF ~x.hasCredentials THEN sendFailure("No Feishu app credentials configured")
  ELSE IF trim(x.to) = <<>> THEN sendFailure("No recipient provided")
  ELSE IF x.op = "image" /\ trim(x.key) = <<>> THEN sendFailure("No image key provided")
  ELSE IF x.op = "file" /\ trim(x.key) = <<>> THEN sendFailure("No file key provided")
  ELSE
    LET normalizedTo == normalizeTarget(x.to)
        receiveIdType == sendReceiveIdType(x, normalizedTo)
        isReply == x.op = "message" /\ x.replyToMessageId # ""
        content == IF x.op = "message"
                   THEN buildMarkdownCard(x.key, IF isReply THEN x.mentionUserId ELSE <<>>, FALSE)
                   ELSE << [key |-> trim(x.key)] >>
        call == IF isReply
                THEN [api |-> "replyMessage", message_id |-> x.replyToMessageId,
                      receive_id |-> <<>>, receive_id_type |-> "none",
                      msg_type |-> "interactive", content |-> content]
                ELSE [api |-> "sendMessage", message_id |-> "",
                      receive_id |-> normalizedTo, receive_id_type |-> receiveIdType,
                      msg_type |-> IF x.op = "message" THEN "interactive" ELSE x.op,
                      content |-> content]
    IN sendOutcome(x, call)

InitSend ==
  /\ IdlePipeline
  /\ fnIn \in SendInputs
  /\ fnOut = [done |-> FALSE, value |-> NoSendResult]
  /\ IdleApi
  /\ IdleDelivery
  /\ IdleStream

CallSendFeishu ==
  /\ ~fnOut.done
  /\ fnOut' = [done |-> TRUE, value |-> sendFeishu(fnIn)]
  /\ UNCHANGED <<pipelineVars, fnIn, apiVars, delivery, stream>>

NextSend == CallSendFeishu

SpecSend == InitSend /\ [][NextSend]_vars

-----------------------------------------------------------------------------
(* deliverFeishuReplyStreaming: a reply streamed as one message that is edited *)

STREAMING_UPDATE_INTERVAL_MS == 300

\* the text increments the stream yields, in order
IncrementNames == <<"i1", "i2", "i3", "i4", "i5", "i6">>

\* Date.now() at the first increment, and the time that may pass before each
\* later one (the awaited flush included)
FirstArrival == 1000

StreamGaps == {50, 70, 190, 300}

\* mutant of flushDue: every increment is flushed
flushDueAlways(now, lastUpdateTime) == TRUE

\* the negation of `timeSinceLastUpdate < STREAMING_UPDATE_INTERVAL_MS`
flushDue(now, lastUpdateTime) == ~(now - lastUpdateTime < STREAMING_UPDATE_INTERVAL_MS)

\* mutant of displayText: only the latest increment is rendered
displayTextOfLastIncrement(st) ==
  IF st.accumulatedText = <<>> THEN <<>>
  ELSE << st.accumulatedText[Len(st.accumulatedText)] >>

\* convertMarkdownTables(ctx.accumulatedText, tableMode)
displayText(st) == st.accumulatedText

\* replyMessage when replyToMessageId is given, else sendMessage; edit_id is
\* the message id an updateMessageCard call edits
streamSend(st, isStreaming, isFinal) ==
  LET content == buildMarkdownCard(displayText(st), st.senderId, isStreaming)
  IN IF st.replyToMessageId # ""
     THEN [api |-> "replyMessage", message_id |-> st.replyToMessageId, edit_id |-> 0,
           receive_id |-> <<>>, receive_id_type |-> "none", msg_type |-> "interactive",
           content |-> content, at |-> st.now, final |-> isFinal, unsettled |-> st.unsettled]
     ELSE [api |-> "sendMessage", message_id |-> "", edit_id |-> 0,
           receive_id |-> st.receiveId, receive_id_type |-> st.receiveIdType,
           msg_type |-> "interactive",
           content |-> content, at |-> st.now, final |-> isFinal, unsettled |-> st.unsettled]

streamUpdate(st, isStreaming, isFinal) ==
  [api |-> "updateMessageCard", message_id |-> "", edit_id |-> st.messageId,
   receive_id |-> <<>>, receive_id_type |-> "none", msg_type |-> "interactive",
   content |-> buildMarkdownCard(displayText(st), st.senderId, isStreaming),
   at |-> st.now, final |-> isFinal, unsettled |-> st.unsettled]

\* a call is issued and awaited
issue(st, call, pc) ==
  [st EXCEPT !.out = Append(@, call), !.unsettled = @ + 1, !.pc = pc]

\* the loop body for one increment, up to `continue`, to the await of the
\* flush, or to its end when there is nothing to do
onIncrement(st, now, chunk) ==
  LET st1 == [st EXCEPT !.accumulatedText = IF chunk = "" THEN @ ELSE Append(@, chunk),
                        !.now = now,
                        !.arrivals = Append(@, now),
                        !.empties = IF chunk = "" THEN @ \cup {now} ELSE @]
  IN IF ~flushDue(now, st1.lastUpdateTime) THEN st1
     ELSE IF st1.isFirstChunk THEN issue(st1, streamSend(st1, TRUE, FALSE), "await")
     ELSE IF st1.messageId # 0 THEN issue(st1, streamUpdate(st1, TRUE, FALSE), "await")
     ELSE st1

\* mutant of afterFlush: a successful flush does not move lastUpdateTime
afterFlushKeepsTime(st, outcome) ==
  LET st1 == [st EXCEPT !.unsettled = @ - 1, !.settled = Append(@, outcome), !.pc = "next"]
  IN IF outcome = "failed" THEN st1
     ELSE IF st.isFirstChunk
          THEN [st1 EXCEPT !.messageId = IF outcome = "ok" THEN st.created + 1 ELSE 0,
                           !.created = @ + 1, !.isFirstChunk = FALSE,
                           !.lastOutboundAt = @ + 1]
     ELSE [st1 EXCEPT !.lastOutboundAt = @ + 1]

\* mutant of afterFlush: a failed flush ends the delivery
afterFlushFailureEnds(st, outcome) ==
  LET st1 == [st EXCEPT !.unsettled = @ - 1, !.settled = Append(@, outcome), !.pc = "next"]
  IN IF outcome = "failed" THEN [st1 EXCEPT !.pc = "done"]
     ELSE IF st.isFirstChunk
          THEN [st1 EXCEPT !.messageId = IF outcome = "ok" THEN st.created + 1 ELSE 0,
                           !.created = @ + 1, !.isFirstChunk = FALSE,
                           !.lastUpdateTime = st.now, !.lastOutboundAt = @ + 1]
     ELSE [st1 EXCEPT !.lastUpdateTime = st.now, !.lastOutboundAt = @ + 1]

\* The flush settles.  "ok": the call resolved (a send with data.message_id);
\* "okNoId": a send resolved without data.message_id; "failed": the call
\* threw into the inner catch, which leaves the context as it was.
afterFlush(st, outcome) ==
  LET st1 == [st EXCEPT !.unsettled = @ - 1, !.settled = Append(@, outcome), !.pc = "next"]
  IN IF outcome = "failed" THEN st1
     ELSE IF st.isFirstChunk
          THEN [st1 EXCEPT !.messageId = IF outcome = "ok" THEN st.created + 1 ELSE 0,
                           !.created = @ + 1, !.isFirstChunk = FALSE,
                           !.lastUpdateTime = st.now, !.lastOutboundAt = @ + 1]
     ELSE [st1 EXCEPT !.lastUpdateTime = st.now, !.lastOutboundAt = @ + 1]

\* mutant of finalFlush: the final transmission keeps the cursor
finalFlushKeepsCursor(st) ==
  IF st.messageId # 0 /\ st.accumulatedText # <<>>
  THEN issue(st, streamUpdate(st, TRUE, TRUE), "final")
  ELSE IF st.messageId = 0 /\ st.accumulatedText # <<>>
       THEN issue(st, streamSend(st, TRUE, TRUE), "final")
  ELSE [st EXCEPT !.pc = "done"]

\* after the loop: the final update, or the send of a reply never sent
finalFlush(st) ==
  IF st.messageId # 0 /\ st.accumulatedText # <<>>
  THEN issue(st, streamUpdate(st, FALSE, TRUE), "final")
  ELSE IF st.messageId = 0 /\ st.accumulatedText # <<>>
       THEN issue(st, streamSend(st, FALSE, TRUE), "final")
  ELSE [st EXCEPT !.pc = "done"]

\* the final call settles: statusSink on success, a log line on failure
afterFinal(st, ok) ==
  [st EXCEPT !.unsettled = @ - 1,
             !.settled = Append(@, IF ok THEN "ok" ELSE "failed"),
             !.created = IF ok /\ st.out[Len(st.out)].api # "updateMessageCard" THEN @ + 1 ELSE @,
             !.lastOutboundAt = IF ok THEN @ + 1 ELSE @,
             !.pc = "done"]

\* deliverFeishuReplyStreaming is called: up to the first pull of the stream
DeliverFeishuReplyStreaming ==
  /\ stream.pc = "idle"
  /\ \E target \in ReplyTargets, senderId \in DeliverySenderIds,
        replyToMessageId \in ReplyToMessageIds :
       stream' = [NoStream EXCEPT !.pc = "next", !.senderId = senderId,
                                  !.replyToMessageId = replyToMessageId,
                                  !.receiveId = target.id, !.receiveIdType = target.type,
                                  !.now = FirstArrival]
  /\ UNCHANGED <<pipelineVars, fnIn, fnOut, apiVars, delivery>>

\* the stream yields its next increment, which may be the empty string
StreamYields ==
  /\ stream.pc = "next"
  /\ Len(stream.arrivals) < MaxIncrements
  /\ \E gap \in StreamGaps, isEmpty \in BOOLEAN :
       LET now == IF stream.arrivals = <<>> THEN FirstArrival ELSE stream.now + gap
           chunk == IF isEmpty THEN "" ELSE IncrementNames[Len(stream.accumulatedText) + 1]
       IN stream' = onIncrement(stream, now, chunk)
  /\ UNCHANGED <<pipelineVars, fnIn, fnOut, apiVars, delivery>>

\* the awaited flush of the loop settles
FlushSettles ==
  /\ stream.pc = "await"
  /\ \E outcome \in {"ok", "okNoId", "failed"} :
       /\ outcome = "okNoId" => stream.isFirstChunk
       /\ stream' = afterFlush(stream, outcome)
  /\ UNCHANGED <<pipelineVars, fnIn, fnOut, apiVars, delivery>>

\* the stream is exhausted
StreamEnds ==
  /\ stream.pc = "next"
  /\ stream' = finalFlush(stream)
  /\ UNCHANGED <<pipelineVars, fnIn, fnOut, apiVars, delivery>>

\* the stream throws: the outer catch logs and rethrows
StreamThrows ==
  /\ stream.pc = "next"
  /\ stream' = [stream EXCEPT !.pc = "raised"]
  /\ UNCHANGED <<pipelineVars, fnIn, fnOut, apiVars, delivery>>

\* the awaited final call settles
FinalSettles ==
  /\ stream.pc = "final"
  /\ \E ok \in BOOLEAN : stream' = afterFinal(stream, ok)
  /\ UNCHANGED <<pipelineVars, fnIn, fnOut, apiVars, delivery>>

InitStream ==
  /\ IdlePipeline
  /\ fnIn = <<>>
  /\ fnOut = <<>>
  /\ IdleApi
  /\ IdleDelivery
  /\ IdleStream

NextStream ==
  \/ DeliverFeishuReplyStreaming
  \/ StreamYields
  \/ FlushSettles
  \/ StreamEnds
  \/ StreamThrows
  \/ FinalSettles

SpecStream == InitStream /\ [][NextStream]_vars

-----------------------------------------------------------------------------
(* The status sink over one use of the channel: a session of the event      *)
(* handler, one batch delivery, or one streaming delivery                   *)

InitStatus ==
  /\ IdlePipeline
  /\ fnIn = <<>>
  /\ fnOut = <<>>
  /\ IdleApi
  /\ IdleDelivery
  /\ IdleStream

NextStatus ==
  \/ /\ IdleDelivery
     /\ IdleStream
     /\ Next
  \/ /\ IdlePipeline
     /\ IdleStream
     /\ NextDeliver
  \/ /\ IdlePipeline
     /\ IdleDelivery
     /\ NextStream

SpecStatus == InitStatus /\ [][NextStatus]_vars

-----------------------------------------------------------------------------
(* Vocabulary of the properties *)

Count(seq, x) == Cardinality({i \in DOMAIN seq : seq[i] = x})

\* two characters that are the same letter in either case
SameLetter(c, d) ==
  c = d \/ \E k \in DOMAIN UpperChars : {c, d} = {UpperChars[k], LowerChars[k]}

EqualIgnoringCase(x, y) ==
  Len(x) = Len(y) /\ \A i \in DOMAIN x : SameLetter(x[i], y[i])

ChannelNames == { <<"f", "e", "i", "s", "h", "u">>, <<"l", "a", "r", "k">>, <<"f", "s">> }

\* x is "<channel>:" followed by id, the channel name in any case
IsPrefixed(x, id) ==
  \E c \in ChannelNames :
    /\ Len(x) = Len(c) + 1 + Len(id)
    /\ EqualIgnoringCase(SubSeq(x, 1, Len(c)), c)
    /\ x[Len(c) + 1] = ":"
    /\ SubSeq(x, Len(c) + 2, Len(x)) = id

HasChannelPrefix(x) == \E n \in 0..Len(x) : IsPrefixed(x, SubSeq(x, Len(x) - n + 1, Len(x)))

\* the ids an allow-list entry names: the entry itself when it has no
\* channel prefix, what follows the prefix when it has one
EntryNames(entry, id) ==
  IF HasChannelPrefix(entry) THEN IsPrefixed(entry, id) ELSE entry = id

\* the entry admits the sender id: it is the wildcard, or it names the id up
\* to the case of letters
EntryAdmits(entry, senderId) ==
  \/ entry = <<"*">>
  \/ \E n \in 0..Len(entry) :
       LET id == SubSeq(entry, Len(entry) - n + 1, Len(entry))
       IN EntryNames(entry, id) /\ EqualIgnoringCase(id, senderId)

InAllowSet(senderId, allowFrom) ==
  \E i \in DOMAIN allowFrom : EntryAdmits(allowFrom[i], senderId)

\* the invocation entered access control: the handler was not stopped, the
\* message is not empty and its sender is resolved
Reached(r) ==
  /\ r.pc # "idle"
  /\ Has(r, "lastInboundAt")
  /\ ~Has(r, "empty")
  /\ ~Has(r, "noSender")

\* ... and the store read, when there is one, has settled
Decided(r) == Reached(r) /\ r.pc # "readStore"

SenderOf(r) ==
  LET sid == r.event.sender.sender_id
  IN IF sid.open_id # <<>> THEN sid.open_id
     ELSE IF sid.user_id # <<>> THEN sid.user_id ELSE sid.union_id

\* the allow set of the invocation: the configured list and the list the
\* store read returned
MergedAllowFrom(r) == account.allowFrom \o r.storeAllowFrom

PairingPolicy == account.dmPolicy \in {"pairing", "unset"}

IsDirect(r) == r.event.message.chat_type # "group"

\* a direct message the DM policy blocks
PolicyBlocked(r) ==
  /\ Decided(r)
  /\ IsDirect(r)
  /\ \/ account.dmPolicy = "disabled"
     \/ /\ account.dmPolicy \in {"allowlist", "pairing", "unset"}
        /\ ~InAllowSet(SenderOf(r), MergedAllowFrom(r))

Routed(r) == Has(r, "resolveAgentRoute")
Recorded(r) == Has(r, "recordInboundSession") \/ r.pc = "dispatch"
Dispatched(r) == Has(r, "dispatchReply")

-----------------------------------------------------------------------------
(* Properties of the pipeline *)

\* C1: under dmPolicy pairing, every direct message that reaches the DM
\* policy from a sender outside the merged allow set causes exactly one
\* upsertPairingRequest; the pairing notice is sent (one sendMessage) exactly
\* when that upsert answered created=true, and never when it answered
\* created=false or did not answer
C1_OneUpsertNoticeIffCreated ==
  \A s \in DOMAIN slots :
    LET r == slots[s] IN
    (PolicyBlocked(r) /\ PairingPolicy) =>
      /\ r.pc \in {"upsert", "notice", "done"}
      /\ Count(r.trace, "upsertPairingRequest") = (IF r.pc = "upsert" THEN 0 ELSE 1)
      /\ Count(r.trace, "sendMessage") = (IF r.pc = "done" /\ r.created = "true" THEN 1 ELSE 0)
      /\ Len(r.out) = Count(r.trace, "sendMessage")
      /\ r.pc = "notice" => r.created = "true"

\* a later message of a sender whose request is pending: one upsert, no notice
C1_Witness ==
  \E s \in DOMAIN slots :
    LET r == slots[s] IN
    /\ PolicyBlocked(r) /\ PairingPolicy
    /\ r.wasBlocked
    /\ r.pc = "done"
    /\ r.created = "false"
    /\ Count(r.trace, "upsertPairingRequest") = 1
    /\ r.out = <<>>

\* C2: a direct message the DM policy blocks (disabled; allowlist or pairing,
\* the default, with the sender outside the merged allow set) never reaches
\* resolveAgentRoute, recordInboundSession or the reply dispatcher
C2_BlockedNeverRouted ==
  \A s \in DOMAIN slots :
    LET r == slots[s] IN
    PolicyBlocked(r) =>
      /\ ~Routed(r)
      /\ ~Recorded(r)
      /\ ~Dispatched(r)
      /\ r.pc \notin {"record", "dispatch"}

\* an unknown sender under the default policy: one upsert, one notice, no session
C2_Witness ==
  \E s \in DOMAIN slots :
    LET r == slots[s] IN
    /\ PolicyBlocked(r)
    /\ account.dmPolicy = "unset"
    /\ r.pc = "done"
    /\ Has(r, "upsertPairingRequest")
    /\ Len(r.out) = 1
    /\ ~Recorded(r)

\* the request of a pairing notice to the sender of r
IsPairingNotice(r, call) ==
  /\ call.api = "sendMessage"
  /\ call.msg_type = "text"
  /\ call.receive_id = SenderOf(r)

\* C3: a direct message blocked under allowlist or disabled issues no
\* platform API call and no pairing upsert; whatever the policy, the only
\* call a blocked message issues is one pairing notice, under pairing
C3_BlockedSilent ==
  \A s \in DOMAIN slots :
    LET r == slots[s] IN
    PolicyBlocked(r) =>
      /\ account.dmPolicy \in {"allowlist", "disabled"} =>
           /\ r.out = <<>>
           /\ ~Has(r, "upsertPairingRequest")
           /\ ~Has(r, "sendMessage")
           /\ r.pc = "done"
      /\ Len(r.out) <= 1
      /\ \A i \in DOMAIN r.out : IsPairingNotice(r, r.out[i]) /\ PairingPolicy

\* a sender outside the allow list, blocked under allowlist after the store read
C3_Witness ==
  \E s \in DOMAIN slots :
    LET r == slots[s] IN
    /\ PolicyBlocked(r)
    /\ account.dmPolicy = "allowlist"
    /\ Has(r, "readAllowFromStore")
    /\ r.pc = "done"
    /\ r.out = <<>>

\* a direct message of a sender that was blocked before, under pairing or
\* allowlist, read the store when the store listed the sender's id
ApprovedSince(r) ==
  /\ Decided(r)
  /\ IsDirect(r)
  /\ account.dmPolicy \in {"allowlist", "pairing", "unset"}
  /\ r.wasBlocked
  /\ Has(r, "readAllowFromStore")
  /\ includes(r.storeAtRead, SenderOf(r))

C6_StoreReadUnlessOpen ==
  \A s \in DOMAIN slots :
    LET r == slots[s] IN
    Decided(r) =>
      /\ ~Has(r, "readAllowFromStore") =>
           account.dmPolicy = "open" /\ ~r.event.shouldComputeAuth
      /\ Has(r, "readAllowFromStore") => r.storeAllowFrom = r.storeAtRead

\* C6 as amended: the store is read for a direct message unless the policy
\* is open and no command authorization is computed, and never for a group
\* message; the allow set used is the configured list followed by the list
\* a successful read returned (nothing when the read failed or was skipped),
\* and the DM policy decides on that set
C6_StoreReadForDirect ==
  \A s \in DOMAIN slots :
    LET r == slots[s] IN
    Decided(r) =>
      /\ Has(r, "readAllowFromStore") <=>
           (IsDirect(r) /\ (account.dmPolicy # "open" \/ r.event.shouldComputeAuth))
      /\ r.storeAllowFrom =
           (IF Has(r, "readAllowFromStore") /\ r.readStore = "ok" THEN r.storeAtRead ELSE <<>>)
      /\ (IsDirect(r) /\ account.dmPolicy \in {"allowlist", "pairing", "unset"}) =>
           ((Has(r, "blocked") \/ Has(r, "upsertPairingRequest") \/ r.pc = "upsert")
              <=> ~InAllowSet(SenderOf(r), account.allowFrom \o r.storeAllowFrom))

\* policy open and a command authorization to compute: the store is read
\* and its entry is in the allow set
C6_Witness ==
  \E s \in DOMAIN slots :
    LET r == slots[s] IN
    /\ Decided(r)
    /\ IsDirect(r)
    /\ account.dmPolicy = "open"
    /\ r.event.shouldComputeAuth
    /\ Has(r, "readAllowFromStore")
    /\ r.storeAllowFrom # <<>>

GroupAllowlistPolicy == account.groupPolicy \in {"allowlist", "unset"}

ChatOf(r) == r.event.message.chat_id

\* a group message that entered access control
GroupReached(r) == Reached(r) /\ ~IsDirect(r)

C8_DefaultDeny ==
  \A s \in DOMAIN slots :
    LET r == slots[s] IN
    (/\ GroupReached(r) /\ GroupAllowlistPolicy
     /\ \A i \in DOMAIN account.groupAllowFrom : account.groupAllowFrom[i] \notin {"*", ChatOf(r)}
     /\ ~account.groups[ChatOf(r)].present) =>
      /\ ~Routed(r)
      /\ ~Dispatched(r)

\* a mention of the bot's own, known open id
SelfMentioned(r) ==
  /\ botInfo # <<>>
  /\ \E i \in DOMAIN r.event.message.mentions :
       r.event.message.mentions[i].id.open_id = botInfo

\* C9: a group message of a chat whose requireMention override is not false
\* is routed only if the bot is mentioned; with no mentions it is never
\* routed; with a mention of the bot's own open id it passes the gate
\* whenever the group policy let it through
C9_MentionGate ==
  \A s \in DOMAIN slots :
    LET r == slots[s] IN
    (GroupReached(r) /\ account.groups[ChatOf(r)].requireMention # "false") =>
      /\ (Routed(r) \/ Recorded(r) \/ Dispatched(r)) => isBotMentioned(r.event, botInfo)
      /\ r.event.message.mentions = <<>> => ~Routed(r) /\ r.pc = "done"
      /\ (SelfMentioned(r) /\ ~Has(r, "groupBlocked")) => ~Has(r, "noMention") /\ Routed(r)

\* no override at all, the bot mentioned by its open id: dispatched
C9_Witness ==
  \E s \in DOMAIN slots :
    LET r == slots[s] IN
    /\ GroupReached(r)
    /\ ~account.groups[ChatOf(r)].present
    /\ SelfMentioned(r)
    /\ Dispatched(r)

\* C10: a control command in a group is recorded and dispatched only with a
\* command authorization that was computed and is true; otherwise, having
\* passed group policy, mention gate and route resolution, it is dropped
\* before the session is recorded
C10_ControlCommandNeedsAuth ==
  \A s \in DOMAIN slots :
    LET r == slots[s] IN
    (GroupReached(r) /\ r.event.isControlCommand) =>
      /\ (Recorded(r) \/ Dispatched(r) \/ r.pc = "record") =>
           r.commandAuthorized = "true" /\ r.event.shouldComputeAuth
      /\ Has(r, "dropCommand") =>
           Routed(r) /\ ~Recorded(r) /\ ~Dispatched(r) /\ r.pc = "done"
      /\ (Routed(r) /\ ~Has(r, "error") /\ r.commandAuthorized # "true") =>
           Has(r, "dropCommand")

\* a control command whose authorization was never computed is dropped
C10_Witness ==
  \E s \in DOMAIN slots :
    LET r == slots[s] IN
    /\ GroupReached(r) /\ r.event.isControlCommand
    /\ ~r.event.shouldComputeAuth
    /\ r.commandAuthorized = "undefined"
    /\ Has(r, "dropCommand")

-----------------------------------------------------------------------------
(* Properties of isSenderAllowed *)

\* C4: isSenderAllowed is true iff the list has the wildcard or some entry,
\* stripped of an optional channel prefix, equals the sender id up to the
\* case of letters (the entry is stripped, the sender id is compared whole),
\* and false otherwise
C4_MatchesEntryNormalized ==
  fnOut.done => (fnOut.value <=> InAllowSet(fnIn.senderId, fnIn.allowFrom))

\* an entry with a channel prefix and another case admits the sender
C4_Witness ==
  /\ fnOut.done
  /\ fnOut.value
  /\ fnIn.senderId = <<"A">>
  /\ fnIn.allowFrom = << <<"b">>, <<"F", "S", ":", "a">> >>

-----------------------------------------------------------------------------
(* Properties of the pipeline's order, classification and cancellation *)

\* the place of a step in the pipeline; the direct-message steps and the
\* group steps stand at the same place
Rank(step) ==
  CASE step = "lastInboundAt" -> 0
    [] step = "empty" -> 1
    [] step = "noSender" -> 2
    [] step = "readAllowFromStore" -> 3
    [] step \in {"blocked", "groupBlocked"} -> 4
    [] step \in {"upsertPairingRequest", "noMention"} -> 5
    [] step = "sendMessage" -> 6
    [] step = "lastOutboundAt" -> 7
    [] step = "resolveAgentRoute" -> 8
    [] step = "dropCommand" -> 9
    [] step = "recordInboundSession" -> 10
    [] step = "onRecordError" -> 11
    [] step = "dispatchReply" -> 12
    [] step = "error" -> 13

\* the steps at which the event is dropped
DropSteps == {"empty", "noSender", "blocked", "groupBlocked", "noMention", "dropCommand", "error"}

DirectSteps == {"readAllowFromStore", "blocked", "upsertPairingRequest", "sendMessage", "lastOutboundAt"}

GroupSteps == {"groupBlocked", "noMention", "dropCommand"}

BlankText(t) == \A i \in DOMAIN t : t[i] \in {" ", "\t", "\n"}

\* the event carries nothing: blank extracted text, no image key, no file key
CarriesNothing(r) ==
  /\ BlankText(parseTextContent(r.event.message))
  /\ parseImageKeys(r.event.message) = <<>>
  /\ parseFileKey(r.event.message) = <<>>

HasSenderId(r) ==
  LET sid == r.event.sender.sender_id
  IN sid.open_id # <<>> \/ sid.user_id # <<>> \/ sid.union_id # <<>>

\* the addressing type that goes with the first present id
SenderTypeOf(r) ==
  LET sid == r.event.sender.sender_id
  IN IF sid.open_id # <<>> THEN "open_id"
     ELSE IF sid.user_id # <<>> THEN "user_id" ELSE "union_id"

\* C11: for every event the steps of the pipeline occur in the fixed order
\* empty check, sender resolution, DM policy (direct) or group policy then
\* mention gate (group), route resolution, control-command drop, session
\* recording, dispatch; every step occurs at most once; dispatch starts only
\* after recordInboundSession has settled; a drop is the last step of its event
C11_PipelineOrder ==
  \A s \in DOMAIN slots :
    LET r == slots[s]
        t == r.trace
    IN /\ \A i, j \in DOMAIN t : i < j => Rank(t[i]) < Rank(t[j])
       /\ \A i \in DOMAIN t : t[i] \in DropSteps => (i = Len(t) /\ r.pc = "done")
       /\ (r.pc = "dispatch" \/ Has(r, "dispatchReply")) =>
            (Has(r, "recordInboundSession") /\ Has(r, "resolveAgentRoute"))
       /\ (r.pc = "record" \/ Has(r, "recordInboundSession")) => Has(r, "resolveAgentRoute")
       /\ \A i \in DOMAIN t :
            /\ Rank(t[i]) >= 2 => ~CarriesNothing(r)
            /\ Rank(t[i]) >= 3 => HasSenderId(r)
            /\ t[i] \in DirectSteps => IsDirect(r)
            /\ t[i] \in GroupSteps => ~IsDirect(r)
       /\ r.pc \in {"readStore", "upsert", "notice"} => (IsDirect(r) /\ HasSenderId(r))

\* a group message that went through every step up to the dispatch
C11_Witness ==
  \E s \in DOMAIN slots :
    LET r == slots[s] IN
    /\ ~IsDirect(r)
    /\ r.event.isControlCommand
    /\ requireMention(account, ChatOf(r))
    /\ r.pc = "done"
    /\ r.trace = <<"lastInboundAt", "resolveAgentRoute", "recordInboundSession", "dispatchReply">>

\* C12: an event whose extracted text is empty or blank and that carries no
\* image key and no file key is discarded at the empty check: no store read,
\* no pairing upsert, no outbound call, no route, no session record, no dispatch
C12_EmptyDiscarded ==
  \A s \in DOMAIN slots :
    LET r == slots[s] IN
    (r.pc # "idle" /\ Has(r, "lastInboundAt") /\ CarriesNothing(r)) =>
      /\ r.pc = "done"
      /\ r.trace = <<"lastInboundAt", "empty">>
      /\ r.out = <<>>
      /\ r.readStore = "none"
      /\ r.created = "none"

\* a blank text message of a sender the default policy would send to pairing
C12_Witness ==
  \E s \in DOMAIN slots :
    LET r == slots[s] IN
    /\ r.pc = "done"
    /\ r.event.message.content.text = <<" ">>
    /\ r.event.sender.sender_id.open_id = <<"a">>
    /\ PairingPolicy
    /\ Has(r, "empty")
    /\ pending = {}

\* C13: the sender identity of access control and of addressing is the first
\* present of open_id, user_id, union_id with the matching type; an event
\* with none of them is dropped with no store access, no outbound call and no
\* dispatch
C13_FirstPresentSenderId ==
  \A s \in DOMAIN slots :
    LET r == slots[s] IN
    (r.pc # "idle" /\ Has(r, "lastInboundAt") /\ ~Has(r, "empty")) =>
      IF HasSenderId(r)
      THEN /\ ~Has(r, "noSender")
           /\ \A i \in DOMAIN r.out :
                r.out[i].receive_id = SenderOf(r) /\ r.out[i].receive_id_type = SenderTypeOf(r)
           /\ PolicyBlocked(r) => SenderOf(r) \in blocked
      ELSE /\ r.pc = "done"
           /\ r.trace = <<"lastInboundAt", "noSender">>
           /\ r.out = <<>>
           /\ r.readStore = "none"
           /\ r.created = "none"

\* a sender with user_id and union_id is sent the pairing notice at its user_id
C13_Witness ==
  \E s \in DOMAIN slots :
    LET r == slots[s] IN
    /\ r.event.sender.sender_id = SENDER_b
    /\ r.pc = "done"
    /\ Len(r.out) = 1
    /\ r.out[1].receive_id = <<"b">>
    /\ r.out[1].receive_id_type = "user_id"

\* C18: once the session is stopped, an event delivered to the handler does
\* nothing (no status update, no store access, no outbound call, no
\* dispatch), and the stopped flag never returns to false
C18_StoppedIsFinal ==
  [][/\ stopped => stopped'
     /\ (stopped /\ received' # received) =>
          /\ \A s \in DOMAIN slots :
               slots'[s] # slots[s] =>
                 /\ slots'[s].pc = "done"
                 /\ slots'[s].trace = <<>>
                 /\ slots'[s].out = <<>>
                 /\ slots'[s].readStore = "none"
          /\ UNCHANGED <<storeAllow, pending, blocked>>]_vars

\* an event was delivered after the stop and left no trace
C18_Witness ==
  /\ stopped
  /\ \E s \in DOMAIN slots :
       /\ slots[s].pc = "done"
       /\ slots[s].messageId >= 1
       /\ slots[s].trace = <<>>
       /\ slots[s].out = <<>>

\* C19: once the abort signal has fired, an event that was already being
\* processed issues no further outbound API call: an invocation suspended
\* before its pairing notice does not go on to send it
C19_InFlightCancelled ==
  [][\A s \in DOMAIN slots :
       (stopped /\ slots[s].pc # "notice") => slots'[s].pc # "notice"]_vars

-----------------------------------------------------------------------------
(* Properties of getTenantAccessToken *)

\* the lifetime the response reports, in milliseconds
LifetimeMs(response) == IF response.hasExpire THEN response.expire * 1000 ELSE 7200000

\* the cache entry of the call's app id when the call was made
SeenAtCall(k) == k.cached[k.appId]

\* that entry existed and expired more than five minutes after the call
FreshAtCall(k) == SeenAtCall(k).present /\ SeenAtCall(k).expiresAt - k.now > 300000

\* the exchanges that wrote the entry of an app id, in the order they completed
WritesOf(appId) == SelectSeq(exchanged, LAMBDA e : e.appId = appId)

\* C14: getTenantAccessToken returns the cached token of the app id without
\* an exchange exactly when the entry exists and expires more than 5 minutes
\* after the call; otherwise it performs exactly one exchange and, when it
\* returns, has stored the new token under the app id (and only there) with
\* expiry = call time + reported expire seconds (7200 when unspecified)
C14_CachedUnlessNearExpiry ==
  \A c \in Callers :
    LET k == tokenCalls[c] IN
    k.pc # "idle" =>
      IF FreshAtCall(k)
      THEN k.pc = "returned" /\ k.exchanges = 0 /\ k.token = SeenAtCall(k).token
      ELSE /\ k.exchanges = 1
           /\ k.pc = "returned" =>
                /\ k.token = k.response.token
                /\ k.token # 0
                /\ \E i \in DOMAIN exchanged :
                     /\ exchanged[i].appId = k.appId
                     /\ exchanged[i].response = k.response
                     /\ exchanged[i].written =
                          [present |-> TRUE, token |-> k.token,
                           expiresAt |-> k.now + LifetimeMs(k.response)]
                     /\ exchanged[i].others

\* two consecutive calls for one app id, the second half a second after the
\* first: the same token, one exchange in total
C14_Witness ==
  \E c, d \in Callers :
    /\ tokenCalls[c].pc = "returned" /\ tokenCalls[c].exchanges = 1
    /\ tokenCalls[d].pc = "returned" /\ tokenCalls[d].exchanges = 0
    /\ tokenCalls[d].appId = tokenCalls[c].appId
    /\ tokenCalls[d].now = tokenCalls[c].now + 500
    /\ tokenCalls[d].token = tokenCalls[c].token
    /\ tokenCalls[c].response.expire = 301
    /\ issued = 1

\* C15: getTenantAccessToken fails with an auth error and caches nothing
\* whenever the exchange response carries a non-zero status code or lacks the
\* token; a token is returned and cached only for a response with status code
\* zero and a token present
C15_FailsUnlessCodeZero ==
  /\ \A c \in Callers :
       LET k == tokenCalls[c] IN
       (k.pc \in {"returned", "failed"} /\ k.exchanges = 1 /\ k.error # "other") =>
         IF k.response.code # 0 \/ k.response.token = 0
         THEN k.pc = "failed" /\ k.error = "FeishuApiError"
         ELSE k.pc = "returned" /\ k.token = k.response.token
  /\ \A i \in DOMAIN exchanged :
       exchanged[i].response.code = 0 /\ exchanged[i].response.token # 0

\* C16: concurrent calls that miss the cache each perform their own exchange;
\* each call that returns from an exchange returns the token of its own
\* response; the cache entry of an app id, while present, is the token and the
\* expiry written by the exchange for that app id that completed last
C16_LastWriteWins ==
  /\ \A c \in Callers :
       LET k == tokenCalls[c] IN
       /\ (k.pc # "idle" /\ ~FreshAtCall(k)) => k.exchanges = 1
       /\ (k.pc = "returned" /\ k.exchanges = 1) =>
            /\ k.token = k.response.token
            /\ k.token # 0
            /\ \E i \in DOMAIN WritesOf(k.appId) : WritesOf(k.appId)[i].response = k.response
  /\ \A a \in AppIds :
       tokenCache[a].present =>
         LET w == WritesOf(a) IN
         /\ w # <<>>
         /\ tokenCache[a].token = w[Len(w)].response.token
         /\ tokenCache[a].expiresAt = w[Len(w)].now + LifetimeMs(w[Len(w)].response)

\* two calls missed the cache of one app id together; the one that started
\* first completed last, and the cache holds its token and its earlier expiry
C16_Witness ==
  \E c, d \in Callers :
    LET k == tokenCalls[c]
        l == tokenCalls[d]
    IN /\ k.appId = l.appId
       /\ k.pc = "returned" /\ k.exchanges = 1 /\ ~SeenAtCall(k).present
       /\ l.pc = "returned" /\ l.exchanges = 1 /\ ~SeenAtCall(l).present
       /\ k.now < l.now
       /\ k.token > l.token
       /\ k.response.hasExpire = l.response.hasExpire
       /\ k.response.expire = l.response.expire
       /\ tokenCache[k.appId].token = k.token
       /\ tokenCache[k.appId].expiresAt = k.now + LifetimeMs(k.response)

-----------------------------------------------------------------------------
(* Properties of callFeishuApi *)

\* C17: for a response whose body parses, callFeishuApi throws a
\* FeishuApiError carrying the body's code and msg whenever the body's code is
\* not zero, whatever the HTTP status, and returns the body only when its code
\* is zero
C17_NonZeroCodeFails ==
  (fnOut.done /\ fnIn.fetch = "resolves" /\ fnIn.body.valid) =>
    LET data == fnIn.body
        result == fnOut.value
    IN IF data.hasCode /\ data.code = 0
       THEN /\ result.kind = "returned"
            /\ result.code = 0
            /\ result.hasMsg = data.hasMsg /\ result.msg = data.msg
       ELSE /\ result.kind = "FeishuApiError"
            /\ result.hasCode = data.hasCode /\ result.code = data.code
            /\ result.hasMsg = data.hasMsg /\ result.msg = data.msg
            /\ data.hasMsg => result.message = data.msg

\* HTTP 200 with a platform error in the body
C17_Witness ==
  /\ fnOut.done
  /\ fnIn.status = 200
  /\ fnIn.body.hasCode /\ fnIn.body.code = 230001
  /\ fnOut.value.kind = "FeishuApiError"
  /\ fnOut.value.code = 230001
  /\ fnOut.value.message = "bot is not in the chat"

-----------------------------------------------------------------------------
(* Properties of the batch delivery *)

\* the card mentions somebody
Mentions(call) == \E k \in DOMAIN call.content : "at" \in DOMAIN call.content[k]

NonBlank(id) == \E k \in DOMAIN id : id[k] \notin {" ", "\t", "\n"}

\* C20: a reply split into chunks c1..cn is transmitted in n attempts, in
\* chunk order, each issued only when the one before it has settled (whether
\* it succeeded or failed); c2..cn are standalone messages to the reply target
\* with no mention; only c1 is a reply to the original message (when its id is
\* given) and only c1 mentions the sender (when a sender id is given)
C20_BatchChunksInOrder ==
  LET d == delivery
      n == Len(d.chunks)
  IN /\ Len(d.out) <= n
     /\ d.pc = "done" => (Len(d.out) = n /\ Len(d.settled) = n /\ d.unsettled = 0)
     /\ d.pc = "await" => (Len(d.settled) = Len(d.out) - 1 /\ d.unsettled = 1)
     /\ \A k \in DOMAIN d.out :
          LET call == d.out[k] IN
          /\ call.content[Len(call.content)] = [text |-> d.chunks[k]]
          /\ call.unsettled = 0
          /\ call.msg_type = "interactive"
          /\ k > 1 =>
               /\ call.api = "sendMessage"
               /\ call.receive_id = d.receiveId
               /\ call.receive_id_type = d.receiveIdType
               /\ ~Mentions(call)
          /\ k = 1 =>
               /\ IF d.replyToMessageId # ""
                  THEN call.api = "replyMessage" /\ call.message_id = d.replyToMessageId
                  ELSE /\ call.api = "sendMessage"
                       /\ call.receive_id = d.receiveId
                       /\ call.receive_id_type = d.receiveIdType
               /\ IF NonBlank(d.senderId)
                  THEN call.content = << [at |-> d.senderId], [text |-> d.chunks[1]] >>
                  ELSE ~Mentions(call)

\* three chunks, the second transmission failed: a reply with the mention,
\* then two standalone messages
C20_Witness ==
  LET d == delivery IN
  /\ d.pc = "done"
  /\ Len(d.chunks) = 3
  /\ d.settled = <<"ok", "failed", "ok">>
  /\ d.replyToMessageId = "om_1"
  /\ d.senderId = <<"a">>
  /\ d.out[1].api = "replyMessage"
  /\ Mentions(d.out[1])
  /\ d.out[2].api = "sendMessage"
  /\ d.out[3].api = "sendMessage"
  /\ d.out[3].content = << [text |-> "c3"] >>

\* C21: the failure of one chunk's transmission is caught for that chunk
\* alone: the remaining chunks are still attempted in order, deliverFeishuReply
\* completes without raising, and lastOutboundAt is reported once per chunk
\* that was transmitted successfully and never for one that failed
C21_ChunkFailureIsolated ==
  LET d == delivery
      n == Len(d.chunks)
  IN /\ d.pc \in {"idle", "await", "done"}
     /\ d.pc = "done" => Len(d.out) = n
     /\ d.pc = "await" => (Len(d.out) = Len(d.settled) + 1 /\ Len(d.out) <= n)
     /\ \A k \in DOMAIN d.out : d.out[k].content[Len(d.out[k].content)] = [text |-> d.chunks[k]]
     /\ d.lastOutboundAt = Count(d.settled, "ok")

\* the first of three chunks failed, the other two were transmitted
C21_Witness ==
  LET d == delivery IN
  /\ d.pc = "done"
  /\ d.settled = <<"failed", "ok", "ok">>
  /\ Len(d.out) = 3
  /\ d.lastOutboundAt = 2

-----------------------------------------------------------------------------
(* Properties of the streaming delivery *)

\* the card ends with the cursor
HasCursor(call) == \E k \in DOMAIN call.content : "cursor" \in DOMAIN call.content[k]

\* the increments a card's text is made of
TextOf(call) ==
  LET k == CHOOSE k \in DOMAIN call.content : "text" \in DOMAIN call.content[k]
  IN call.content[k].text

\* the first n non-empty increments of the stream
Increments(n) == SubSeq(IncrementNames, 1, n)

\* the non-empty increments that had arrived when the time was t
ArrivedBy(t) ==
  Cardinality({ j \in DOMAIN stream.arrivals :
                  stream.arrivals[j] <= t /\ stream.arrivals[j] \notin stream.empties })

\* the transmissions issued by the loop, and those of them that have succeeded
Flushes == { k \in DOMAIN stream.out : ~stream.out[k].final }

SucceededFlushes == { k \in Flushes : k <= Len(stream.settled) /\ stream.settled[k] # "failed" }

\* non-empty increments at t, t+50ms, t+120ms and t+310ms, every flush of
\* which has succeeded, seen when the fourth has been handled
Burst ==
  /\ stream.arrivals = <<FirstArrival, FirstArrival + 50, FirstArrival + 120, FirstArrival + 310>>
  /\ stream.empties = {}
  /\ stream.pc = "next"
  /\ \A k \in DOMAIN stream.settled : stream.settled[k] = "ok"

\* an increment that arrives less than 300 ms after a flush that succeeded
\* is not transmitted on arrival
SuppressedAfterSuccess ==
  \A j \in DOMAIN stream.arrivals :
    (\E m \in SucceededFlushes :
        /\ stream.out[m].at < stream.arrivals[j]
        /\ stream.arrivals[j] - stream.out[m].at < STREAMING_UPDATE_INTERVAL_MS)
    => ~(\E k \in Flushes : stream.out[k].at = stream.arrivals[j])

\* C22 as stated: for increments at t, t+50ms, t+120ms and t+310ms exactly
\* one flush occurs within the first 300 ms and it covers the first three
\* increments, exactly one more occurs at t+310ms, and an increment arriving
\* less than 300 ms after the last flush is appended without a transmission
C22_FirstFlushCoversThree ==
  /\ Burst =>
       /\ Len(stream.out) = 2
       /\ stream.out[1].at < FirstArrival + STREAMING_UPDATE_INTERVAL_MS
       /\ TextOf(stream.out[1]) = Increments(3)
       /\ stream.out[2].at = FirstArrival + 310
  /\ SuppressedAfterSuccess
  /\ stream.accumulatedText = Increments(ArrivedBy(stream.now))

\* C22 amended: for increments at t, t+50ms, t+120ms and t+310ms the first
\* increment is flushed alone at t, the second and third are only appended,
\* and the flush at t+310ms is the first to carry them, together with the
\* fourth; an increment arriving less than 300 ms after the last successful
\* flush is appended to the accumulated text without a transmission
C22_LeadingFlushThenCoalesce ==
  /\ Burst =>
       /\ Len(stream.out) = 2
       /\ stream.out[1].at = FirstArrival
       /\ TextOf(stream.out[1]) = Increments(1)
       /\ stream.out[2].at = FirstArrival + 310
       /\ TextOf(stream.out[2]) = Increments(4)
  /\ SuppressedAfterSuccess
  /\ stream.accumulatedText = Increments(ArrivedBy(stream.now))

\* the burst has been handled with two successful flushes
C22_Witness ==
  /\ Burst
  /\ stream.settled = <<"ok", "ok">>
  /\ Len(stream.out) = 2
  /\ stream.accumulatedText = Increments(4)

\* the transmissions that created a message: a send or reply that succeeded
SucceededSends ==
  { k \in DOMAIN stream.out :
      /\ k <= Len(stream.settled)
      /\ stream.settled[k] # "failed"
      /\ stream.out[k].api # "updateMessageCard" }

\* C23: within one streaming reply at most one message is created: the first
\* flush is a reply to the original message when its id is known and a new
\* message otherwise, and once a send has succeeded every later transmission,
\* the final one included, is an edit of the message that send created, so
\* no second send or reply follows
C23_OneMessagePerReply ==
  /\ stream.created <= 1
  /\ stream.out # <<>> =>
       IF stream.replyToMessageId # ""
       THEN stream.out[1].api = "replyMessage" /\ stream.out[1].message_id = stream.replyToMessageId
       ELSE /\ stream.out[1].api = "sendMessage"
            /\ stream.out[1].receive_id = stream.receiveId
            /\ stream.out[1].receive_id_type = stream.receiveIdType
  /\ \A m \in SucceededSends : \A k \in DOMAIN stream.out :
       k > m => /\ stream.out[k].api = "updateMessageCard"
                /\ stream.out[k].edit_id # 0
                /\ stream.out[k].edit_id = stream.messageId

\* the transmissions issued after the loop
Finals == { k \in DOMAIN stream.out : stream.out[k].final }

C25_FinalFailurePropagates ==
  \A k \in Finals :
    (k <= Len(stream.settled) /\ stream.settled[k] = "failed") => stream.pc = "raised"

\* C26: within a single streaming reply at most one transmission is in flight
\* at any time, each transmission carries the full text accumulated when it
\* was issued, and the text of every transmission extends the text of the one
\* before it
C26_OneInFlightInOrder ==
  /\ stream.unsettled <= 1
  /\ Len(stream.settled) = Len(stream.out) - stream.unsettled
  /\ \A k \in DOMAIN stream.out :
       /\ stream.out[k].unsettled = 0
       /\ TextOf(stream.out[k]) = Increments(ArrivedBy(stream.out[k].at))
       /\ k > 1 =>
            LET before == TextOf(stream.out[k - 1])
                text == TextOf(stream.out[k])
            IN /\ Len(before) <= Len(text)
               /\ SubSeq(text, 1, Len(before)) = before

\* three transmissions of growing text: one increment, three, then all four
C26_Witness ==
  /\ stream.pc = "done"
  /\ Len(stream.out) = 3
  /\ TextOf(stream.out[1]) = Increments(1)
  /\ TextOf(stream.out[2]) = Increments(3)
  /\ TextOf(stream.out[3]) = Increments(4)

\* two flushes of the loop with no flush between them
ConsecutiveFlushes(k, m) ==
  /\ k \in Flushes
  /\ m \in Flushes
  /\ k < m
  /\ ~(\E x \in Flushes : k < x /\ x < m)

\* every flush of the loop carries all the increments that had arrived
NothingLost ==
  \A k \in Flushes : TextOf(stream.out[k]) = Increments(ArrivedBy(stream.out[k].at))

\* C27 as stated: any two consecutive flush attempts made while increments
\* are arriving start at least 300 ms apart, whether the earlier one succeeded
\* or failed, and no suppressed increment is lost
C27_AttemptsSpaced ==
  /\ \A k, m \in DOMAIN stream.out :
       ConsecutiveFlushes(k, m) =>
         stream.out[m].at - stream.out[k].at >= STREAMING_UPDATE_INTERVAL_MS
  /\ NothingLost

\* C27 amended: a flush attempt made while increments are arriving starts at
\* least 300 ms after every earlier flush that succeeded; after a flush that
\* failed the next increment is flushed on arrival, however soon it comes;
\* and no suppressed increment is lost, because every flush carries all that
\* has accumulated
C27_SpacedAfterSuccess ==
  /\ \A k \in SucceededFlushes : \A m \in Flushes :
       k < m => stream.out[m].at - stream.out[k].at >= STREAMING_UPDATE_INTERVAL_MS
  /\ \A k \in Flushes :
       (k <= Len(stream.settled) /\ stream.settled[k] = "failed") =>
         \A j \in DOMAIN stream.arrivals :
           (j > 1 /\ stream.arrivals[j - 1] = stream.out[k].at) =>
             \E m \in Flushes : stream.out[m].at = stream.arrivals[j]
  /\ NothingLost

\* the first flush failed and the next increment, 50 ms later, was flushed at
\* once; that flush succeeded and the one after it came 300 ms later
C27_Witness ==
  /\ Len(stream.settled) >= 2
  /\ stream.settled[1] = "failed"
  /\ stream.settled[2] = "ok"
  /\ Len(stream.out) >= 3
  /\ {1, 2, 3} \subseteq Flushes
  /\ stream.out[2].at - stream.out[1].at = 50
  /\ stream.out[3].at - stream.out[2].at >= STREAMING_UPDATE_INTERVAL_MS
  /\ TextOf(stream.out[3]) = Increments(ArrivedBy(stream.out[3].at))

-----------------------------------------------------------------------------
(* Properties of the session record, of concurrent handlers and of the status *)

\* C28: a failure while recording the inbound event is never fatal: whether
\* recordInboundSession reports it through onRecordError or rejects, the
\* event is still handed to the reply dispatcher
C28_RecordFailureNotFatal ==
  \A s \in Slots :
    Has(slots[s], "recordInboundSession") =>
      (slots[s].pc = "dispatch" \/ Dispatched(slots[s]))

\* a direct message of sender id that the pairing policy turned away
TurnedAway(r, id) ==
  /\ PolicyBlocked(r)
  /\ dmPolicyOf(account) = "pairing"
  /\ SenderOf(r) = id

\* C29: when direct messages from the same unpaired sender are handled
\* concurrently under the pairing policy and the store answers created=true
\* to at most one of their upserts, at most one pairing notice is sent to
\* that sender, and none of those messages is routed or dispatched
C29_OneNoticePerRace ==
  \A s, t \in DOMAIN slots :
    (s # t /\ TurnedAway(slots[s], ID_a) /\ TurnedAway(slots[t], ID_a)) =>
      /\ ~Routed(slots[s]) /\ ~Dispatched(slots[s])
      /\ ~Routed(slots[t]) /\ ~Dispatched(slots[t])
      /\ ~(slots[s].created = "true" /\ slots[t].created = "true") =>
           Len(slots[s].out) + Len(slots[t].out) <= 1

\* the first message was overtaken: the second one's upsert created the
\* request and its notice was sent, the first one's upsert came later and
\* sent nothing
C29_Witness ==
  /\ TurnedAway(slots[1], ID_a)
  /\ TurnedAway(slots[2], ID_a)
  /\ slots[1].pc = "done" /\ slots[2].pc = "done"
  /\ slots[1].messageId = 1 /\ slots[2].messageId = 2
  /\ slots[1].created = "false" /\ slots[1].out = <<>>
  /\ slots[2].created = "true" /\ Len(slots[2].out) = 1
  /\ pending = {ID_a}

\* the transmissions of the streaming delivery that have succeeded
StreamSuccesses == { k \in DOMAIN stream.settled : stream.settled[k] # "failed" }

\* C30: every inbound event the handler accepts (it arrived before the
\* monitor was stopped) reports lastInboundAt before anything else is done
\* with it, and lastOutboundAt is reported once after every outbound
\* transmission that succeeded (the pairing notice, a chunk of a batch
\* delivery, a flush or the final transmission of a streaming delivery) and
\* not at all after one that failed
C30_StatusFollowsTraffic ==
  /\ \A s \in DOMAIN slots :
       LET r == slots[s] IN
       /\ (r.pc # "idle" /\ r.trace = <<>>) => (stopped /\ r.pc = "done")
       /\ r.trace # <<>> => (r.trace[1] = "lastInboundAt" /\ Count(r.trace, "lastInboundAt") = 1)
       /\ Count(r.trace, "lastOutboundAt") = Count(r.settled, "ok")
       /\ Len(r.settled) = Len(r.out)
       /\ \A i \in DOMAIN r.trace :
            r.trace[i] = "lastOutboundAt" => (i > 1 /\ r.trace[i - 1] = "sendMessage")
  /\ delivery.lastOutboundAt = Count(delivery.settled, "ok")
  /\ stream.lastOutboundAt = Cardinality(StreamSuccesses)

\* a streaming delivery whose first flush failed, whose second succeeded and
\* whose final edit succeeded: two reports for three transmissions
C30_Witness ==
  /\ stream.pc = "done"
  /\ stream.settled = <<"failed", "ok", "ok">>
  /\ stream.out[3].final
  /\ stream.lastOutboundAt = 2

-----------------------------------------------------------------------------
(* Properties of the mention detection *)

\* the mentions of the message under test, and its text when it parses
MentionsUnderTest == { fnIn.event.message.mentions[i] : i \in DOMAIN fnIn.event.message.mentions }

ParsesAsText == fnIn.event.message.content.valid

\* the text starts with the given characters
Leads(prefix) ==
  LET text == fnIn.event.message.content.text
  IN /\ Len(prefix) <= Len(text)
     /\ \A k \in DOMAIN prefix : text[k] = prefix[k]

-----------------------------------------------------------------------------
(* Properties of failures: streaming flushes, the event handler *)

\* the flushes of the loop that failed
FailedFlushes == { k \in Flushes : k <= Len(stream.settled) /\ stream.settled[k] = "failed" }

\* a send was answered without a message id, after which the loop has no
\* message to edit
SentWithoutId == \E k \in DOMAIN stream.settled : stream.settled[k] = "okNoId"

\* the increment that arrived at time t was due: no flush had succeeded in
\* the 300 ms before it
Due(t) ==
  ~(\E m \in SucceededFlushes :
       stream.out[m].at < t /\ t - stream.out[m].at < STREAMING_UPDATE_INTERVAL_MS)

\* after a failed flush the increments that follow are still accumulated and
\* every later increment that is due is still flushed (as long as there is a
\* message to edit or none was sent yet)
StreamGoesOn ==
  /\ stream.accumulatedText = Increments(ArrivedBy(stream.now))
  /\ \A k \in FailedFlushes : \A j \in DOMAIN stream.arrivals :
       (stream.arrivals[j] > stream.out[k].at /\ Due(stream.arrivals[j]) /\ ~SentWithoutId)
       => \E m \in Flushes : stream.out[m].at = stream.arrivals[j]

\* the completed stream ended with one final transmission of the complete
\* accumulated text
FinalAttempted ==
  /\ Finals = {Len(stream.out)}
  /\ TextOf(stream.out[Len(stream.out)]) = stream.accumulatedText
  /\ Len(stream.settled) = Len(stream.out)

FailsNow(s) == Has(slots'[s], "error") /\ slots'[s] # slots[s]

\* C33: a failure raised while one inbound event is processed (by the store,
\* the router, the session record or the dispatcher) is caught by the event
\* handler: that invocation completes, and the step changes nothing that the
\* processing of another event, concurrent or later, depends on
C33_FailureContained ==
  [][\A s \in DOMAIN slots :
       FailsNow(s) =>
         /\ slots'[s].pc = "done"
         /\ \A t \in DOMAIN slots : t # s => slots'[t] = slots[t]
         /\ UNCHANGED <<account, botInfo, stopped, storeAllow, pending>>]_vars

\* the first event ended in the handler's catch; the second one, from the
\* sender approved meanwhile, was dispatched
C33_Witness ==
  /\ slots[1].messageId = 1
  /\ slots[1].pc = "done"
  /\ Has(slots[1], "error")
  /\ slots[2].messageId = 2
  /\ slots[2].pc = "done"
  /\ Dispatched(slots[2])
  /\ ~Has(slots[2], "error")

-----------------------------------------------------------------------------
(* Properties of the addressing of replies *)

\* the ids the parts of a card mention
MentionedIds(call) ==
  { call.content[k].at : k \in { i \in DOMAIN call.content : "at" \in DOMAIN call.content[i] } }

\* the call is addressed from the context of the event r handles
OwnAddress(r, call) ==
  /\ call.api = "replyMessage" => call.message_id = "om_" \o ToString(r.messageId)
  /\ call.api = "sendMessage" =>
       IF r.event.message.chat_type = "group"
       THEN call.receive_id_type = "chat_id" /\ call.receive_id = r.event.message.chat_id
       ELSE call.receive_id_type = SenderTypeOf(r) /\ call.receive_id = SenderOf(r)
  /\ MentionedIds(call) \subseteq {SenderOf(r)}

\* C34: under any interleaving of concurrently handled events, every message
\* sent for an event is addressed from that event's own context: a reply
\* quotes that event's message id, a standalone send goes to the chat (type
\* chat_id) of a group event and to the resolved sender id and type of a
\* direct event, and the only id mentioned is that event's sender
C34_OwnContextOnly ==
  \A s \in DOMAIN slots :
    LET r == slots[s] IN
    /\ \A k \in DOMAIN r.reply.out : OwnAddress(r, r.reply.out[k])
    /\ r.reply.out # <<>> =>
         /\ r.reply.out[1].api = "replyMessage"
         /\ MentionedIds(r.reply.out[1]) = {SenderOf(r)}

\* a group message and a direct message of another sender are answered at
\* the same time: each has had its quoting reply and awaits its standalone
\* second chunk, one to the chat and one to the sender
C34_Witness ==
  /\ slots[1].event.message.chat_type = "group"
  /\ slots[2].event.message.chat_type = "p2p"
  /\ SenderOf(slots[2]) = ID_b
  /\ slots[1].reply.pc = "await"
  /\ slots[2].reply.pc = "await"
  /\ Len(slots[1].reply.out) = 2
  /\ Len(slots[2].reply.out) = 2
  /\ slots[1].reply.out[1].message_id = "om_1"
  /\ slots[2].reply.out[1].message_id = "om_2"
  /\ slots[1].reply.out[2].receive_id_type = "chat_id"
  /\ slots[2].reply.out[2].receive_id_type = "user_id"

-----------------------------------------------------------------------------
(* Properties of the public send operations *)

\* C35: sendMessageFeishu, sendImageFeishu and sendFileFeishu never raise:
\* every failure is returned as ok = false with an error; without app
\* credentials or with a blank recipient the error is returned and no call
\* is made; ok = true is returned only when the platform's response has code
\* 0 and carries data
C35_SendNeverRaises ==
  fnOut.done =>
    LET x == fnIn
        res == fnOut.value
    IN /\ ~res.raised
       /\ ~res.ok => res.error # ""
       /\ res.ok => res.error = ""
       /\ (~x.hasCredentials \/ \A i \in DOMAIN x.to : x.to[i] \in {" ", "\t", "\n"})
            => (~res.ok /\ res.calls = <<>>)
       /\ res.ok => (/\ ~x.answer.throws
                     /\ x.answer.code = 0
                     /\ x.answer.hasData
                     /\ Len(res.calls) = 1)
       /\ res.hasMessageId => res.ok

\* the platform call threw and sendImageFeishu returned the error
C35_Witness ==
  /\ fnOut.done
  /\ fnIn.op = "image"
  /\ fnIn.answer.throws
  /\ Len(fnOut.value.calls) = 1
  /\ ~fnOut.value.ok
  /\ fnOut.value.error = "thrown"
  /\ ~fnOut.value.raised

\* the addressing type that the shape of an id stands for
ShapeOf(id) ==
  IF Len(id) >= 3 /\ SubSeq(id, 1, 3) = <<"o", "c", "_">> THEN "chat_id"
  ELSE IF Len(id) >= 3 /\ SubSeq(id, 1, 3) = <<"o", "u", "_">> THEN "open_id"
  ELSE IF Len(id) >= 3 /\ SubSeq(id, 1, 3) = <<"o", "n", "_">> THEN "union_id"
  ELSE IF \E i \in DOMAIN id : id[i] = "@" THEN "email"
  ELSE IF isAlphanumeric(id) THEN "user_id"
  ELSE "open_id"

\* C39: for every target passed to sendMessageFeishu without an explicit
\* receiveIdType, the receive_id_type sent to the platform is the type that
\* the shape of the string sent as receive_id stands for
C39_TypeOfTheSentId ==
  (fnOut.done /\ fnIn.op = "message" /\ fnIn.receiveIdType = "unset") =>
    \A k \in DOMAIN fnOut.value.calls :
      LET call == fnOut.value.calls[k] IN
      call.api = "sendMessage" => call.receive_id_type = ShapeOf(call.receive_id)

\* the streaming reply has completed and none of its transmissions failed
CompletedWithoutFailure ==
  /\ stream.pc = "done"
  /\ Len(stream.settled) = Len(stream.out)
  /\ \A k \in DOMAIN stream.settled : stream.settled[k] # "failed"

\* the transmissions that created a message showing the cursor
CreatedWithCursor ==
  { k \in DOMAIN stream.out :
      stream.out[k].api # "updateMessageCard" /\ HasCursor(stream.out[k]) }

\* C36: after a streaming reply has completed with no transmission failure,
\* the message it created does not show the cursor: whenever a message was
\* sent with the cursor, the last transmission of the reply is a later
\* successful edit of that message without the cursor, whatever the
\* increments were, empty strings included
C36_CursorRemoved ==
  CompletedWithoutFailure =>
    \A k \in CreatedWithCursor :
      LET n == Len(stream.out) IN
      /\ n > k
      /\ stream.out[n].api = "updateMessageCard"
      /\ stream.out[n].edit_id = stream.messageId
      /\ stream.messageId # 0
      /\ ~HasCursor(stream.out[n])
      /\ stream.settled[n] = "ok"

\* C37: a group whose per-group override sets enabled to false never has a
\* message routed or dispatched, whatever the group policy is and whether or
\* not its chat id is listed in groupAllowFrom
C37_DisabledGroupNeverRouted ==
  \A s \in DOMAIN slots :
    LET r == slots[s] IN
    (GroupReached(r) /\ account.groups[ChatOf(r)].enabled = "false") =>
      /\ ~Routed(r)
      /\ ~Dispatched(r)

\* the call of caller c ends in failure in this step
ExchangeFails(c) == tokenCalls[c].pc = "exchange" /\ tokenCalls'[c].pc = "failed"

\* the call of caller c starts in this step
CallStarts(c) == tokenCalls[c].pc = "idle" /\ tokenCalls'[c].pc # "idle"

\* C38: a credential exchange that fails (no token in the response, transport
\* error, timeout abort) leaves the token cache as it was: nothing is added,
\* and no entry of that or of another app id is replaced or removed;
\* clearTokenCache(appId) removes the entry of that app id only, and a
\* getTenantAccessToken that finds the entry removed performs an exchange
C38_FailedExchangeKeepsCache ==
  [][ /\ \A c \in Callers : (ExchangeFails(c) \/ CallStarts(c)) => tokenCache' = tokenCache
      /\ \A c \in Callers :
           ExchangeFails(c) =>
             /\ tokenCalls'[c].token = 0
             /\ tokenCalls'[c].error \in {"FeishuApiError", "other"}
             /\ issued' = issued
      /\ \A a \in AppIds :
           (tokenCache[a].present /\ ~tokenCache'[a].present) =>
             /\ tokenCache' = [tokenCache EXCEPT ![a] = NoCachedToken]
             /\ tokenCalls' = tokenCalls
      /\ \A c \in Callers :
           (CallStarts(c) /\ ~tokenCache[tokenCalls'[c].appId].present) =>
             /\ tokenCalls'[c].pc = "exchange"
             /\ tokenCalls'[c].exchanges = 1
    ]_vars

\* with entries cached for both app ids, a call for "cli_1" found its entry
\* too close to expiry, exchanged and failed, and the cache is still what
\* the call found; the entry of "cli_1" was then cleared, that of "cli_2"
\* stayed, and the next call for "cli_1" went to the exchange
C38_Witness ==
  /\ tokenCalls[1].pc = "failed"
  /\ tokenCalls[1].appId = "cli_1"
  /\ \A a \in AppIds : tokenCalls[1].cached[a].present
  /\ tokenCalls[2].appId = "cli_1"
  /\ tokenCalls[2].exchanges = 1
  /\ tokenCalls[2].cached = [tokenCalls[1].cached EXCEPT !["cli_1"] = NoCachedToken]
  /\ tokenCache = tokenCalls[2].cached
====
